---- MODULE Spec2Model ----
(***************************************************************************)
(* A model of the banana-site server (src/server/index.js, the second,     *)
(* current copy of the server that starts at line 745): token auth, the    *)
(* quota accountant, protected file serving, the favorites materializer    *)
(* and the file-backed collections store.                                  *)
(*                                                                         *)
(* Strings are sequences of atoms.  An atom is a TLA+ string that stands   *)
(* for one or more characters; the atoms used form a prefix-free code, so  *)
(* that a string is a prefix of another exactly when its atom sequence is  *)
(* a prefix of the other's ("ali" = <<"ali">>, "alice" = <<"ali","ce">>).  *)
(* "/", ".", "%2F", ";" and "," are atoms of their own.                    *)
(***************************************************************************)
EXTENDS Integers, Sequences, FiniteSets, TLC

VARIABLES
    now,        \* Date.now(), counted in units of the token lifetime (7 days)
    cookie,     \* the banana_token cookie the client holds (<<>>: none)
    fs,         \* binary files: absolute path (string) -> content (bytes)
    meta,       \* users/<u>/meta.json:  username -> [exists, isAdmin]
    usageFile,  \* users/<u>/usage.json: username -> [st, uploadsBytes, generatedBytes]
    quotaFile,  \* users/<u>/quota.json: username -> galleryBytes (0: no file)
    favFile,    \* users/<u>/favorites/<type>.json: <<u, type>> -> [st, list]
    nextFile,   \* number of file names generated so far
    req,        \* the request (or call) handled last
    resp,       \* its response (or result)
    tasks       \* the requests in flight: id -> where the handler stands, its locals

vars == <<now, cookie, fs, meta, usageFile, quotaFile, favFile, nextFile, req, resp, tasks>>

(***************************************************************************)
(* Bounds of the model.                                                    *)
(***************************************************************************)
MaxTime == 3

----------------------------------------------------------------------------
(***************************************************************************)
(* Strings.                                                                *)
(***************************************************************************)
StartsWith(s, p) == Len(p) <= Len(s) /\ SubSeq(s, 1, Len(p)) = p

\* String.prototype.includes for a two-atom needle
Includes(s, p) == \E i \in 1..Len(s) : StartsWith(SubSeq(s, i, Len(s)), p)

\* String.prototype.split(sep) for a one-atom separator
Split(s, sep) ==
    LET RECURSIVE F(_, _, _)
        F(i, cur, acc) ==
            IF i > Len(s) THEN Append(acc, cur)
            ELSE IF s[i] = sep THEN F(i + 1, <<>>, Append(acc, cur))
            ELSE F(i + 1, Append(cur, s[i]), acc)
    IN F(1, <<>>, <<>>)

\* Array.prototype.join(sep)
Join(segs, sep) ==
    LET RECURSIVE F(_)
        F(i) == IF i > Len(segs) THEN <<>>
                ELSE IF i = 1 THEN segs[1] \o F(2)
                ELSE <<sep>> \o segs[i] \o F(i + 1)
    IN F(1)

\* Array.prototype.filter(Boolean) on an array of strings
FilterBoolean(segs) == SelectSeq(segs, LAMBDA x : x # <<>>)

\* String(n) for a number
NumStr(n) == <<ToString(n)>>

----------------------------------------------------------------------------
(***************************************************************************)
(* Token auth.                                                             *)
(***************************************************************************)
NoExp == -1       \* a payload without exp (exp is undefined)
NoUser == <<>>    \* a payload without u (u is undefined, or the empty string)

ali == <<"ali">>
alice == <<"ali", "ce">>
bob == <<"bob">>
root == <<"root">>

SECRET == "s1"          \* the process-wide secret of loadOrCreateSecret
Secrets == {"s1", "s2"}

Payloads ==
    [u : {NoUser, ali, alice, bob, root}, a : BOOLEAN, exp : {NoExp} \cup (0..MaxTime + 1)]

\* JSON.stringify of a token payload: undefined members are left out
StringifyPayload(p) ==
    <<"{">>
    \o (IF p.u = NoUser THEN <<>> ELSE <<"u:">> \o p.u \o <<",">>)
    \o <<"a:", ToString(p.a)>>
    \o (IF p.exp = NoExp THEN <<>> ELSE <<",", "exp:", ToString(p.exp)>>)
    \o <<"}">>

\* texts that are JSON but no object with members, and texts that are no JSON
JsonNull == <<"null">>
NotJson == <<"{", "u:">>

\* JSON.parse of a payload text: the payload whose text it is
PayloadTexts == {<<StringifyPayload(p), p>> : p \in Payloads}

ParsePayload(text) ==
    IF \E e \in PayloadTexts : e[1] = text
    THEN [kind |-> "object", p |-> (CHOOSE e \in PayloadTexts : e[1] = text)[2]]
    ELSE IF text = JsonNull
    THEN [kind |-> "null", p |-> [u |-> NoUser, a |-> FALSE, exp |-> NoExp]]
    ELSE [kind |-> "SyntaxError", p |-> [u |-> NoUser, a |-> FALSE, exp |-> NoExp]]

TextAtoms ==
    {"{", "}", ",", "u:", "a:", "exp:", "null", "TRUE", "FALSE", "ali", "ce", "bob", "root",
     "hmac:s1", "hmac:s2"}
        \cup {ToString(n) : n \in 0..MaxTime + 1}

\* one character group of base64url output
B64Atom(a) == "b64(" \o a \o ")"

base64urlEncode(input) == [i \in 1..Len(input) |-> B64Atom(input[i])]

\* Buffer.from(s, 'base64') skips what is not base64
B64Atoms == {<<B64Atom(a), a>> : a \in TextAtoms}

base64urlDecodeToBuffer(str) ==
    LET known == SelectSeq(str, LAMBDA c : \E e \in B64Atoms : e[1] = c)
    IN [i \in 1..Len(known) |-> (CHOOSE e \in B64Atoms : e[1] = known[i])[2]]

\* HMAC-SHA256 as an injective function of the key and the message
HmacDigest(secret, msg) == <<"hmac:" \o secret>> \o msg

signToken(secret, payloadB64) == base64urlEncode(HmacDigest(secret, payloadB64))

createToken(secret, payload) ==
    LET payloadB64 == base64urlEncode(StringifyPayload(payload))
    IN payloadB64 \o <<".">> \o signToken(secret, payloadB64)

Null == [ok |-> FALSE, u |-> NoUser, a |-> FALSE, exp |-> NoExp]

verifyToken(secret, token, t) ==
    IF token = <<>> THEN Null
    ELSE LET parts == Split(token, ".") IN
    IF Len(parts) # 2 THEN Null
    ELSE LET payloadB64 == parts[1]
             sig == parts[2]
             expected == signToken(secret, payloadB64)
             parsed == ParsePayload(base64urlDecodeToBuffer(payloadB64)) IN
    IF Len(sig) # Len(expected) THEN Null
    ELSE IF sig # expected THEN Null
    ELSE IF parsed.kind # "object" THEN Null     \* SyntaxError or TypeError, caught
    ELSE IF parsed.p.exp # NoExp /\ parsed.p.exp # 0 /\ t > parsed.p.exp THEN Null
    ELSE IF parsed.p.u = NoUser THEN Null
    ELSE [ok |-> TRUE, u |-> parsed.p.u, a |-> parsed.p.a, exp |-> parsed.p.exp]

----------------------------------------------------------------------------
(***************************************************************************)
(* The installation every specification starts from: root registered       *)
(* first (and so the admin), then ali, alice and bob; nothing stored yet.  *)
(***************************************************************************)
Users == {root, ali, alice, bob}
Types == {<<"presets">>, <<"chats">>, <<"collections">>}
Kinds == {<<"uploads">>, <<"generated">>}

NoFiles == [p \in {} |-> <<>>]

\* no request in flight: every handler has run to its response
NoTasks == [i \in {} |-> <<>>]

\* hashPassword: PBKDF2 as an injective function of the password and the salt
hashPassword(password, salt) == <<"pbkdf2(">> \o salt \o <<",">> \o password \o <<")">>

\* the password each user registered with, and the salt drawn for it
PasswordOf(u) == <<"pw-">> \o u
SaltOf(u) == <<"salt-">> \o u

MetaOf(u, isAdmin) ==
    [exists |-> TRUE, isAdmin |-> isAdmin, salt |-> SaltOf(u),
     hash |-> hashPassword(PasswordOf(u), SaltOf(u))]

Installed ==
    /\ now = 1
    /\ cookie = <<>>
    /\ fs = NoFiles
    /\ meta = [u \in Users |-> MetaOf(u, u = root)]
    /\ usageFile = [u \in Users |-> [st |-> "ok", uploadsBytes |-> 0, generatedBytes |-> 0]]
    /\ quotaFile = [u \in Users |-> 0]
    /\ favFile = [k \in Users \X Types |-> [st |-> "missing", list |-> <<>>]]
    /\ nextFile = 0
    /\ tasks = NoTasks

\* the clock advances between requests
Tick ==
    /\ now < MaxTime
    /\ now' = now + 1
    /\ UNCHANGED <<cookie, fs, meta, usageFile, quotaFile, favFile, nextFile, req, resp, tasks>>

----------------------------------------------------------------------------
(***************************************************************************)
(* Paths and URLs.                                                         *)
(***************************************************************************)
ROOT == <<"/", "app">>                             \* path.resolve(__dirname, '..')
DATA_ROOT == ROOT \o <<"/", "data">>
USERS_ROOT == DATA_ROOT \o <<"/", "users">>

IsDot(c) == c \in {".", "%2E"}
SingleDot(seg) == Len(seg) = 1 /\ IsDot(seg[1])
DoubleDot(seg) == Len(seg) = 2 /\ IsDot(seg[1]) /\ IsDot(seg[2])

Last(q) == q[Len(q)]
Front(q) == SubSeq(q, 1, Len(q) - 1)

\* path.normalize of an absolute path: "" and "." segments dropped, ".."
\* removes the segment before it, a trailing slash is kept
Normalize(p) ==
    LET segs == Split(p, "/")
        RECURSIVE F(_, _)
        F(i, stack) ==
            IF i > Len(segs) THEN stack
            ELSE IF segs[i] = <<>> \/ segs[i] = <<".">> THEN F(i + 1, stack)
            ELSE IF segs[i] = <<".", ".">>
            THEN F(i + 1, IF stack = <<>> THEN stack ELSE Front(stack))
            ELSE F(i + 1, Append(stack, segs[i]))
        stack == F(1, <<>>)
    IN <<"/">> \o Join(stack, "/")
           \o (IF stack # <<>> /\ Last(segs) = <<>> THEN <<"/">> ELSE <<>>)

\* path.join(a, b): an empty argument is skipped
PathJoin(a, b) == IF b = <<>> THEN Normalize(a) ELSE Normalize(a \o <<"/">> \o b)

\* new URL(raw, 'http://localhost').pathname: dot segments, also the
\* percent-encoded ones, are resolved by the parser; %2F is left alone
UrlPathname(raw) ==
    LET segs == Tail(Split(raw, "/"))
        RECURSIVE F(_, _)
        F(i, out) ==
            IF i > Len(segs) THEN out
            ELSE IF DoubleDot(segs[i])
            THEN LET popped == IF out = <<>> THEN out ELSE Front(out)
                 IN F(i + 1, IF i = Len(segs) THEN Append(popped, <<>>) ELSE popped)
            ELSE IF SingleDot(segs[i])
            THEN F(i + 1, IF i = Len(segs) THEN Append(out, <<>>) ELSE out)
            ELSE F(i + 1, Append(out, segs[i]))
    IN <<"/">> \o Join(F(1, <<>>), "/")

decodeURIComponent(s) ==
    [i \in 1..Len(s) |-> IF s[i] = "%2F" THEN "/" ELSE IF s[i] = "%2E" THEN "." ELSE s[i]]

encodeURIComponent(s) == [i \in 1..Len(s) |-> IF s[i] = "/" THEN "%2F" ELSE s[i]]

(***************************************************************************)
(* The files a stat can find: the binary files of fs and the JSON files.   *)
(***************************************************************************)
UserRoot(u) == USERS_ROOT \o <<"/">> \o u
MetaPath(u) == UserRoot(u) \o <<"/", "meta", ".", "json">>
UsagePath(u) == UserRoot(u) \o <<"/", "usage", ".", "json">>
QuotaPath(u) == UserRoot(u) \o <<"/", "quota", ".", "json">>
FavPath(u, type) == UserRoot(u) \o <<"/", "favorites", "/">> \o type \o <<".", "json">>
SecretPath == DATA_ROOT \o <<"/", "secret", ".", "txt">>

JsonFiles ==
    {MetaPath(u) : u \in {v \in Users : meta[v].exists}}
        \cup {UsagePath(u) : u \in {v \in Users : usageFile[v].st # "missing"}}
        \cup {QuotaPath(u) : u \in {v \in Users : quotaFile[v] # 0}}
        \cup {FavPath(k[1], k[2]) : k \in {j \in Users \X Types : favFile[j].st # "missing"}}

\* the application's own files, served without a token
StaticFiles == {ROOT \o <<"/", "banana", ".", "html">>, ROOT \o <<"/", "assets", "/", "app", ".", "js">>}

IsFile(p) == p \in DOMAIN fs \/ p \in JsonFiles \/ p = SecretPath \/ p \in StaticFiles

(***************************************************************************)
(* GET /files/<username>/<rel> and GET /assets/<rel>.                      *)
(***************************************************************************)
requireAuth(token, t) == verifyToken(SECRET, token, t)

ensureUserOwnsPath(auth, username) == auth.ok /\ (auth.u = username \/ auth.a = TRUE)

Answer(status, file) == [status |-> status, file |-> file]

\* the stat and the conditional answer shared by both routes
ServeStat(filePath, inm) ==
    IF ~IsFile(filePath) THEN Answer(404, <<>>)
    ELSE IF inm THEN Answer(304, filePath)
    ELSE Answer(200, filePath)

\* (mutant) the traversal check left out
InsideUserRoot_Unchecked(filePath, userRoot) == TRUE

\* the traversal check of the /files/ route
InsideUserRoot(filePath, userRoot) == StartsWith(filePath, userRoot)

GetFiles(pathname, token, inm, t) ==
    LET parts == FilterBoolean(Split(pathname, "/"))
        auth == requireAuth(token, t)
    IN IF ~auth.ok THEN Answer(401, <<>>)
       ELSE IF Len(parts) < 2
       THEN (IF auth.a = TRUE THEN Answer(500, <<>>) ELSE Answer(403, <<>>))
       ELSE LET username == parts[2]
                rel == Join(SubSeq(parts, 3, Len(parts)), "/")
                userRoot == PathJoin(USERS_ROOT, username)
                filePath == PathJoin(userRoot, rel)
            IN IF ~ensureUserOwnsPath(auth, username) THEN Answer(403, <<>>)
               ELSE IF ~InsideUserRoot(filePath, userRoot) THEN Answer(400, <<>>)
               ELSE ServeStat(filePath, inm)

GetAssets(pathname, inm) ==
    LET rel == SubSeq(pathname, 4, Len(pathname))
        filePath == PathJoin(ROOT \o <<"/", "assets">>, rel)
    IN IF ~StartsWith(filePath, PathJoin(ROOT, <<"assets">>)) THEN Answer(400, <<>>)
       ELSE ServeStat(filePath, inm)

\* the request handler for GET, up to the API routes
HandleGet(rawUrl, token, inm, t) ==
    LET pathname == decodeURIComponent(UrlPathname(rawUrl))
    IN IF StartsWith(pathname, <<"/", "assets", "/">>) THEN GetAssets(pathname, inm)
       ELSE IF StartsWith(pathname, <<"/", "files", "/">>) THEN GetFiles(pathname, token, inm, t)
       ELSE IF pathname = <<"/">> THEN ServeStat(ROOT \o <<"/", "banana", ".", "html">>, inm)
       ELSE Answer(404, <<>>)

----------------------------------------------------------------------------
(***************************************************************************)
(* SpecToken: verifyToken applied to tokens made by createToken, to        *)
(* tokens changed in one place, and to malformed ones.                     *)
(***************************************************************************)
TokenPayloads == [u : {NoUser, alice}, a : BOOLEAN, exp : {NoExp} \cup (0..MaxTime + 1)]

MintedTokens == {createToken(s, p) : s \in Secrets, p \in TokenPayloads}

\* a token signed over a text that is no payload object
SignedRaw(secret, text) ==
    LET payloadB64 == base64urlEncode(text)
    IN payloadB64 \o <<".">> \o signToken(secret, payloadB64)

TamperBase ==
    {createToken(SECRET, [u |-> alice, a |-> FALSE, exp |-> e]) : e \in {NoExp, MaxTime + 1}}

TamperedTokens ==
    {[tok EXCEPT ![i] = c] : tok \in TamperBase, i \in 1..12, c \in {B64Atom("bob"), B64Atom("TRUE"), "."}}

MalformedTokens ==
    {<<>>, <<"x">>, base64urlEncode(StringifyPayload([u |-> alice, a |-> FALSE, exp |-> NoExp]))}
        \cup {tok \o <<".", "x">> : tok \in TamperBase}
        \cup {SignedRaw(SECRET, text) : text \in {JsonNull, NotJson}}

TokenInputs == MintedTokens \cup TamperedTokens \cup MalformedTokens

VerifyStep(secret, token) ==
    /\ req' = [op |-> "verifyToken", secret |-> secret, token |-> token, t |-> now]
    /\ resp' = verifyToken(secret, token, now)
    /\ UNCHANGED <<now, cookie, fs, meta, usageFile, quotaFile, favFile, nextFile, tasks>>

InitToken ==
    /\ Installed
    /\ req = [op |-> "none", secret |-> SECRET, token |-> <<>>, t |-> 1]
    /\ resp = Null

NextToken ==
    \/ Tick
    \/ \E secret \in Secrets, token \in TokenInputs : VerifyStep(secret, token)

SpecToken == InitToken /\ [][NextToken]_vars

\* what the claim takes to be the payload of a token
PayloadOf(token) == ParsePayload(base64urlDecodeToBuffer(Split(token, ".")[1]))

\* C4, as stated: verifyToken returns the payload if and only if the token has
\* exactly two dot-separated parts, the signature part is the HMAC of the
\* payload part under the same secret, payload.u is present and payload.exp is
\* absent or not in the past; otherwise it returns null.
C4_VerifyTokenIff ==
    req.op = "verifyToken" =>
        LET parts == Split(req.token, ".")
            stated ==
                /\ Len(parts) = 2
                /\ parts[2] = base64urlEncode(HmacDigest(req.secret, parts[1]))
                /\ PayloadOf(req.token).kind = "object"
                /\ PayloadOf(req.token).p.u # NoUser
                /\ (PayloadOf(req.token).p.exp = NoExp \/ PayloadOf(req.token).p.exp >= req.t)
        IN /\ resp.ok <=> stated
           /\ resp.ok => [u |-> resp.u, a |-> resp.a, exp |-> resp.exp] = PayloadOf(req.token).p

\* the same statement with an exp of 0 counted as absent, which is what the
\* code's truthiness test does
VerifyTokenExceptZeroExp ==
    req.op = "verifyToken" =>
        LET parts == Split(req.token, ".")
            stated ==
                /\ Len(parts) = 2
                /\ parts[2] = base64urlEncode(HmacDigest(req.secret, parts[1]))
                /\ PayloadOf(req.token).kind = "object"
                /\ PayloadOf(req.token).p.u # NoUser
                /\ (PayloadOf(req.token).p.exp \in {NoExp, 0} \/ PayloadOf(req.token).p.exp >= req.t)
        IN /\ resp.ok <=> stated
           /\ resp.ok => [u |-> resp.u, a |-> resp.a, exp |-> resp.exp] = PayloadOf(req.token).p

----------------------------------------------------------------------------
(***************************************************************************)
(* Login and logout, and what a client can do to its own cookie.           *)
(***************************************************************************)
TOKEN_TTL == 1     \* 7 * 24 * 60 * 60 * 1000 ms, the unit of now

\* sanitizeUsername: 3 to 32 characters of [a-zA-Z0-9_-]
ValidNames == Users \cup {<<"eve">>}
sanitizeUsername(u) == u \in ValidNames

Login(username, password) ==
    /\ req' = [op |-> "login", url |-> username, token |-> cookie, t |-> now]
    /\ IF ~sanitizeUsername(username) \/ password = <<>>
       THEN resp' = [status |-> 400, file |-> <<>>] /\ cookie' = cookie
       ELSE IF username \notin Users \/ ~meta[username].exists
       THEN resp' = [status |-> 401, file |-> <<>>] /\ cookie' = cookie
       ELSE IF hashPassword(password, meta[username].salt) # meta[username].hash
       THEN resp' = [status |-> 401, file |-> <<>>] /\ cookie' = cookie
       ELSE /\ resp' = [status |-> 200, file |-> <<>>]
            /\ cookie' = createToken(SECRET, [u |-> username, a |-> meta[username].isAdmin,
                                              exp |-> now + TOKEN_TTL])
    /\ UNCHANGED <<now, fs, meta, usageFile, quotaFile, favFile, nextFile, tasks>>

Logout ==
    /\ req' = [op |-> "logout", url |-> <<>>, token |-> cookie, t |-> now]
    /\ resp' = [status |-> 200, file |-> <<>>]
    /\ cookie' = <<>>
    /\ UNCHANGED <<now, fs, meta, usageFile, quotaFile, favFile, nextFile, tasks>>

\* tokens a client can make up without the secret: signed with another
\* secret, or a minted token with its payload replaced
ForgedTokens ==
    {createToken("s2", [u |-> alice, a |-> FALSE, exp |-> MaxTime + 1]),
     createToken("s2", [u |-> root, a |-> TRUE, exp |-> MaxTime + 1]),
     base64urlEncode(StringifyPayload([u |-> bob, a |-> TRUE, exp |-> MaxTime + 1]))
         \o <<".">> \o signToken(SECRET, base64urlEncode(StringifyPayload(
                                   [u |-> bob, a |-> FALSE, exp |-> MaxTime + 1])))}

\* the client replaces its cookie; the server is not involved
ForgeCookie(token) ==
    /\ cookie' = token
    /\ UNCHANGED <<now, fs, meta, usageFile, quotaFile, favFile, nextFile, req, resp, tasks>>

----------------------------------------------------------------------------
(***************************************************************************)
(* Data URLs and base64.  A byte is a number; one atom of base64 text      *)
(* stands for the characters that encode one byte.  "!" is a character     *)
(* outside the base64 alphabet and "\n" a line break.                      *)
(***************************************************************************)
Bytes == 0..1

B64(b) == "b" \o ToString(b)

\* buf.toString('base64')
Base64Encode(buf) == [i \in 1..Len(buf) |-> B64(buf[i])]

Base64Decode_Dropped(b64) == <<>>

\* Buffer.from(b64, 'base64'): never throws, what is not base64 gives no bytes
Base64Decode(b64) ==
    LET known == SelectSeq(b64, LAMBDA c : \E b \in Bytes : B64(b) = c)
    IN [i \in 1..Len(known) |-> CHOOSE b \in Bytes : B64(b) = known[i]]

ImagePng == <<"image/", "png">>
ImageJpeg == <<"image/", "jpeg">>
ImageWebp == <<"image/", "webp">>

\* `data:${mime};base64,${data}`
DataUrl(mime, data) == <<"data:">> \o mime \o <<";", "base64", ",">> \o data

NoMatch == [ok |-> FALSE, mime |-> <<>>, buf |-> <<>>]

\* parseDataUrl: /^data:([^;]+);base64,(.+)$/ and the decoding of group 2
parseDataUrl(dataUrl) ==
    IF Len(dataUrl) < 2 \/ dataUrl[1] # "data:" \/ ~\E i \in 1..Len(dataUrl) : dataUrl[i] = ";"
    THEN NoMatch
    ELSE LET semi == CHOOSE i \in 1..Len(dataUrl) :
                         dataUrl[i] = ";" /\ \A j \in 1..(i - 1) : dataUrl[j] # ";"
             mime == SubSeq(dataUrl, 2, semi - 1)
             b64 == SubSeq(dataUrl, semi + 3, Len(dataUrl))
         IN IF /\ mime # <<>>
               /\ Len(dataUrl) >= semi + 3
               /\ SubSeq(dataUrl, semi, semi + 2) = <<";", "base64", ",">>
               /\ \A i \in 1..Len(b64) : b64[i] # "\n"
            THEN [ok |-> TRUE, mime |-> mime, buf |-> Base64Decode(b64)]
            ELSE NoMatch

mimeToExt(mime) ==
    IF mime \in {ImageJpeg, <<"image/", "jpg">>} THEN <<"jpg">>
    ELSE IF mime = ImagePng THEN <<"png">>
    ELSE IF mime = ImageWebp THEN <<"webp">>
    ELSE IF mime = <<"image/", "gif">> THEN <<"gif">>
    ELSE <<"bin">>

\* `${Date.now()}_${crypto.randomBytes(6).toString('hex')}.${ext}`: the n-th
\* name generated; no two names generated are the same
GenStem(n) == <<"f" \o ToString(n)>>
GenName(n, ext) == GenStem(n) \o <<".">> \o ext

\* path.dirname, path.basename and path.extname of a path of two or more segments
Dirname(p) == Join(Front(Split(p, "/")), "/")
Basename(p) == Last(Split(p, "/"))
HasExt(name) == \E i \in 2..Len(name) : name[i] = "."
ExtIndex(name) == CHOOSE i \in 2..Len(name) : name[i] = "." /\ \A j \in (i + 1)..Len(name) : name[j] # "."
Extname(p) == IF HasExt(Basename(p)) THEN SubSeq(Basename(p), ExtIndex(Basename(p)), Len(Basename(p))) ELSE <<>>
Stem(p) == IF HasExt(Basename(p)) THEN SubSeq(Basename(p), 1, ExtIndex(Basename(p)) - 1) ELSE Basename(p)

getThumbPathForImagePath(imagePath) ==
    PathJoin(Dirname(imagePath), <<"thumbs", "/">> \o Stem(imagePath) \o <<".", "webp">>)

\* fsp.writeFile of a binary file
WriteFile(files, p, buf) == [q \in DOMAIN files \cup {p} |-> IF q = p THEN buf ELSE files[q]]

----------------------------------------------------------------------------
(***************************************************************************)
(* The quota accountant.                                                   *)
(***************************************************************************)
DEFAULT_GALLERY_QUOTA_BYTES == 1073741824

RECURSIVE SumSizes(_, _)
SumSizes(files, paths) ==
    IF paths = {} THEN 0
    ELSE LET p == CHOOSE q \in paths : TRUE
         IN Len(files[p]) + SumSizes(files, paths \ {p})

\* statDirBytesRecursive: the sizes of all files below the directory
statDirBytesRecursive(files, dirPath) ==
    SumSizes(files, {p \in DOMAIN files : StartsWith(p, dirPath \o <<"/">>)})

KindDir(u, kind) == PathJoin(UserRoot(u), kind)

\* readUsage: a missing or unparsable usage.json reads as zeros
readUsage(usage, u) ==
    IF usage[u].st = "ok"
    THEN [uploadsBytes |-> usage[u].uploadsBytes, generatedBytes |-> usage[u].generatedBytes]
    ELSE [uploadsBytes |-> 0, generatedBytes |-> 0]

writeUsage(usage, u, v) ==
    [usage EXCEPT ![u] = [st |-> "ok", uploadsBytes |-> v.uploadsBytes,
                          generatedBytes |-> v.generatedBytes]]

\* recomputeUsage: the usage record after it
recomputeUsage(files, usage, u) ==
    writeUsage(usage, u,
               [uploadsBytes |-> statDirBytesRecursive(files, KindDir(u, <<"uploads">>)),
                generatedBytes |-> statDirBytesRecursive(files, KindDir(u, <<"generated">>))])

isAdminUser_Never(u) == FALSE

\* isAdminUser: !!meta?.isAdmin of the stored record
isAdminUser(u) == meta[u].exists /\ meta[u].isAdmin

Unlimited == 0     \* getQuotaBytes returns null

getQuotaBytes(u) ==
    IF isAdminUser(u) THEN Unlimited
    ELSE IF quotaFile[u] > 0 THEN quotaFile[u]
    ELSE DEFAULT_GALLERY_QUOTA_BYTES

Used(v) == v.uploadsBytes + v.generatedBytes

HasSpace_Unchecked(used, inc, quotaBytes) == TRUE

\* the comparison of assertGalleryHasSpace
HasSpace(used, inc, quotaBytes) == used + inc <= quotaBytes

\* assertGalleryHasSpace: [ok, usage], usage being usage.json after the call
\* (rewritten when the cached figures did not fit)
assertGalleryHasSpace(files, usage, u, kind, incomingBytes) ==
    IF kind \notin Kinds THEN [ok |-> TRUE, usage |-> usage]
    ELSE IF getQuotaBytes(u) = Unlimited THEN [ok |-> TRUE, usage |-> usage]
    ELSE IF HasSpace(Used(readUsage(usage, u)), incomingBytes, getQuotaBytes(u))
    THEN [ok |-> TRUE, usage |-> usage]
    ELSE LET usage2 == recomputeUsage(files, usage, u)
         IN [ok |-> HasSpace(Used(readUsage(usage2, u)), incomingBytes, getQuotaBytes(u)),
             usage |-> usage2]

addUsage(usage, u, kind, bytes) ==
    IF kind \notin Kinds THEN usage
    ELSE LET v == readUsage(usage, u)
         IN writeUsage(usage, u,
                [uploadsBytes |-> v.uploadsBytes + (IF kind = <<"uploads">> THEN bytes ELSE 0),
                 generatedBytes |-> v.generatedBytes + (IF kind = <<"generated">> THEN bytes ELSE 0)])

Max0_Unclamped(n) == n

\* Math.max(0, n)
Max0(n) == IF n < 0 THEN 0 ELSE n

changeUsage(usage, u, kind, deltaBytes) ==
    IF kind \notin Kinds THEN usage
    ELSE LET v == readUsage(usage, u)
         IN writeUsage(usage, u,
                [uploadsBytes |-> IF kind = <<"uploads">> THEN Max0(v.uploadsBytes + deltaBytes)
                                  ELSE v.uploadsBytes,
                 generatedBytes |-> IF kind = <<"generated">> THEN Max0(v.generatedBytes + deltaBytes)
                                    ELSE v.generatedBytes])

\* statDirBytes: the sizes of the files in the directory itself
statDirBytes(files, dirPath) ==
    SumSizes(files, {q \in DOMAIN files : Dirname(q) = dirPath})

(***************************************************************************)
(* POST /api/images/save {kind, dataUrl, thumbDataUrl}; a thumbDataUrl of  *)
(* <<>> is none.                                                           *)
(***************************************************************************)
Status(n) == [status |-> n, file |-> <<>>]

SaveImage(kind, dataUrl, thumbDataUrl) ==
    LET auth == requireAuth(cookie, now)
        parsed == parseDataUrl(dataUrl)
        thumbParsed == IF thumbDataUrl = <<>> THEN NoMatch ELSE parseDataUrl(thumbDataUrl)
        thumbBytes == IF thumbParsed.ok THEN Len(thumbParsed.buf) ELSE 0
        space == assertGalleryHasSpace(fs, usageFile, auth.u, kind, Len(parsed.buf) + thumbBytes)
        absPath == PathJoin(KindDir(auth.u, kind), GenName(nextFile, mimeToExt(parsed.mime)))
        thumbPath == getThumbPathForImagePath(absPath)
        usage1 == addUsage(space.usage, auth.u, kind, Len(parsed.buf))
    IN /\ req' = [op |-> "save", kind |-> kind, dataUrl |-> dataUrl, thumbDataUrl |-> thumbDataUrl,
                  token |-> cookie, t |-> now]
       /\ IF ~auth.ok THEN resp' = Status(401) /\ UNCHANGED <<fs, usageFile, nextFile>>
          ELSE IF kind \notin Kinds THEN resp' = Status(400) /\ UNCHANGED <<fs, usageFile, nextFile>>
          ELSE IF ~parsed.ok THEN resp' = Status(400) /\ UNCHANGED <<fs, usageFile, nextFile>>
          ELSE IF ~space.ok
          THEN resp' = Status(507) /\ usageFile' = space.usage /\ UNCHANGED <<fs, nextFile>>
          ELSE /\ resp' = [status |-> 200, file |-> absPath]
               /\ nextFile' = nextFile + 1
               /\ IF thumbParsed.ok
                  THEN /\ fs' = WriteFile(WriteFile(fs, absPath, parsed.buf), thumbPath, thumbParsed.buf)
                       /\ usageFile' = addUsage(usage1, auth.u, kind, Len(thumbParsed.buf))
                  ELSE /\ fs' = WriteFile(fs, absPath, parsed.buf)
                       /\ usageFile' = usage1
       /\ UNCHANGED <<now, cookie, meta, quotaFile, favFile, tasks>>

UsageAnswer(status, quotaBytes, usedBytes) ==
    [status |-> status, file |-> <<>>, quotaBytes |-> quotaBytes, usedBytes |-> usedBytes]

\* GET /api/storage/usage
StorageUsage ==
    LET auth == requireAuth(cookie, now)
        usage == readUsage(usageFile, auth.u)
        hasAny == \/ statDirBytes(fs, KindDir(auth.u, <<"uploads">>)) > 0
                  \/ statDirBytes(fs, KindDir(auth.u, <<"generated">>)) > 0
        usage2 == IF Used(usage) = 0 /\ hasAny THEN recomputeUsage(fs, usageFile, auth.u)
                  ELSE usageFile
    IN /\ req' = [op |-> "usage", token |-> cookie, t |-> now]
       /\ IF ~auth.ok
          THEN resp' = UsageAnswer(401, 0, 0) /\ usageFile' = usageFile
          ELSE /\ usageFile' = usage2
               /\ resp' = UsageAnswer(200, getQuotaBytes(auth.u),
                                      IF Used(usage) = 0 /\ hasAny THEN Used(readUsage(usage2, auth.u))
                                      ELSE Used(usage))
       /\ UNCHANGED <<now, cookie, fs, meta, quotaFile, favFile, nextFile, tasks>>

----------------------------------------------------------------------------
(***************************************************************************)
(* SpecFiles: GET requests against a store in which ali, alice and bob     *)
(* have each saved one upload.                                             *)
(***************************************************************************)
Png == <<1, 0>>       \* the bytes of a stored image

Plain == {ali, alice, bob}

UploadOf(u) ==
    UserRoot(u) \o <<"/", "uploads", "/">>
        \o GenName(CHOOSE n \in 0..2 : <<ali, alice, bob>>[n + 1] = u, <<"png">>)

Url(segs) == <<"/">> \o Join(segs, "/")

MetaJson == <<"meta", ".", "json">>
DotDot == <<".", ".">>

OwnUrls ==
    {Url(<<<<"files">>, u, MetaJson>>) : u \in Plain}
        \cup {<<"/", "files", "/">> \o SubSeq(UploadOf(u), Len(USERS_ROOT) + 2, Len(UploadOf(u))) : u \in Plain}

TraversalPairs == {<<ali, alice>>, <<alice, ali>>, <<alice, bob>>}

TraversalUrls ==
    UNION {{Url(<<<<"files">>, k[1], DotDot, k[2], MetaJson>>),
            Url(<<<<"files">>, k[1], <<"%2E", "%2E">>, k[2], MetaJson>>),
            Url(<<<<"files">>, k[1], DotDot \o <<"%2F">> \o k[2], MetaJson>>),
            Url(<<<<"files">>, k[1], <<"uploads">>,
                  DotDot \o <<"%2F">> \o DotDot \o <<"%2F">> \o k[2] \o <<"%2F">> \o MetaJson>>)}
           : k \in TraversalPairs}

SecretPng == <<"secret", ".", "png">>
LiteralTraversal == Url(<<<<"files">>, alice, DotDot, bob, SecretPng>>)
EncodedTraversal == Url(<<<<"files">>, alice, DotDot \o <<"%2F">> \o bob, SecretPng>>)

OtherUrls ==
    {LiteralTraversal, EncodedTraversal,
     <<"/">>, <<"/", "files", "/">>, <<"/", "assets", "/", "app", ".", "js">>,
     Url(<<<<"files">>, alice, DotDot \o <<"%2F">> \o DotDot \o <<"%2F", "secret", ".", "txt">>>>),
     <<"/", "assets", "/">> \o DotDot \o <<"%2F", "data", "%2F", "users", "%2F">> \o alice \o <<"%2F">> \o MetaJson}

GetUrls == OwnUrls \cup TraversalUrls \cup OtherUrls

\* inm: the request's If-None-Match names the file's current ETag
GetStep(rawUrl, inm) ==
    /\ req' = [op |-> "GET", url |-> rawUrl, token |-> cookie, t |-> now]
    /\ resp' = HandleGet(rawUrl, cookie, inm, now)
    /\ UNCHANGED <<now, cookie, fs, meta, usageFile, quotaFile, favFile, nextFile, tasks>>

InitFiles ==
    /\ now = 1
    /\ cookie = <<>>
    /\ fs = [p \in {UploadOf(u) : u \in Plain} |-> Png]
    /\ meta = [u \in Users |-> MetaOf(u, u = root)]
    /\ usageFile = [u \in Users |->
                      [st |-> "ok", uploadsBytes |-> IF u \in Plain THEN Len(Png) ELSE 0,
                       generatedBytes |-> 0]]
    /\ quotaFile = [u \in Users |-> 0]
    /\ favFile = [k \in Users \X Types |-> [st |-> "missing", list |-> <<>>]]
    /\ nextFile = 3
    /\ tasks = NoTasks
    /\ req = [op |-> "none", url |-> <<"/">>, token |-> <<>>, t |-> 1]
    /\ resp = Answer(404, <<>>)

NextFiles ==
    \/ Tick
    \/ \E u \in ValidNames \cup {<<"a", "!">>} :
           \E password \in {PasswordOf(u), PasswordOf(root), <<>>} : Login(u, password)
    \/ Logout
    \/ \E token \in ForgedTokens : ForgeCookie(token)
    \/ \E rawUrl \in GetUrls, inm \in BOOLEAN : GetStep(rawUrl, inm)

SpecFiles == InitFiles /\ [][NextFiles]_vars

\* p is a file or directory below directory d
Below(p, d) == StartsWith(p, d \o <<"/">>)

Served == req.op = "GET" /\ resp.status \in {200, 304}

\* C2, as stated: a request is answered with the content of a file of the data
\* directory only if its token is valid and unexpired, and a token that is not
\* flagged admin is only ever served files below its own user's directory,
\* whatever '..' segments the request holds and also when one username is a
\* prefix of the other.
C2_FileReadIsolation ==
    (Served /\ StartsWith(resp.file, DATA_ROOT)) =>
        LET auth == verifyToken(SECRET, req.token, req.t)
        IN /\ auth.ok
           /\ auth.a = FALSE => Below(resp.file, UserRoot(auth.u))

\* what does hold: a token that is not flagged admin is served only files
\* whose path starts with the path of its user's directory
FileReadStartsWithRoot ==
    (Served /\ StartsWith(resp.file, DATA_ROOT)) =>
        LET auth == verifyToken(SECRET, req.token, req.t)
        IN /\ auth.ok
           /\ auth.a = FALSE => StartsWith(resp.file, UserRoot(auth.u))

----------------------------------------------------------------------------
(***************************************************************************)
(* SpecQuota: users log in and save images; alice has a quota of QuotaN    *)
(* bytes in her quota.json, root is the admin.                             *)
(***************************************************************************)
QuotaN == 30

MaxFiles == 2      \* images saved in one behaviour

Fill == QuotaN - 10

\* base64 text of n bytes
DataOfSize(n) == [i \in 1..n |-> B64(i % 2)]

SaveSizes == {5, 10, 20, Fill}

SaveDataUrls ==
    {DataUrl(ImagePng, DataOfSize(n)) : n \in SaveSizes} \cup {<<"data:", "image/", "png">>}

ThumbDataUrls == {<<>>, DataUrl(ImageWebp, DataOfSize(5))}

SaveKinds == Kinds \cup {<<"avatars">>}

\* the requests tried: every size into both galleries without a thumbnail, and
\* the smallest image with a thumbnail, into an unknown kind, and unparsable
SaveInputs ==
    {<<kind, dataUrl, <<>>>> : kind \in Kinds, dataUrl \in SaveDataUrls}
        \cup {<<kind, DataUrl(ImagePng, DataOfSize(5)), thumbDataUrl>> :
                  kind \in SaveKinds, thumbDataUrl \in ThumbDataUrls}

\* the galleryBytes of the quota.json that the admin root has been given
AdminQuota == 10

SaveStep(kind, dataUrl, thumbDataUrl) ==
    /\ nextFile < MaxFiles
    /\ SaveImage(kind, dataUrl, thumbDataUrl)

InitQuota ==
    /\ now = 1
    /\ cookie = <<>>
    /\ fs = NoFiles
    /\ meta = [u \in Users |-> MetaOf(u, u = root)]
    /\ usageFile = [u \in Users |-> [st |-> "ok", uploadsBytes |-> 0, generatedBytes |-> 0]]
    /\ quotaFile = [u \in Users |-> IF u = alice THEN QuotaN ELSE IF u = root THEN AdminQuota ELSE 0]
    /\ favFile = [k \in Users \X Types |-> [st |-> "missing", list |-> <<>>]]
    /\ nextFile = 0
    /\ tasks = NoTasks
    /\ req = [op |-> "none"]
    /\ resp = Status(0)

NextQuota ==
    \/ \E u \in {alice, root} : Login(u, PasswordOf(u))
    \/ Logout
    \/ \E in \in SaveInputs : SaveStep(in[1], in[2], in[3])

SpecQuota == InitQuota /\ [][NextQuota]_vars

\* the bytes on disk under the user's two gallery directories
DiskBytes(files, u) ==
    statDirBytesRecursive(files, KindDir(u, <<"uploads">>))
        + statDirBytesRecursive(files, KindDir(u, <<"generated">>))

\* the user of the session cookie is not an admin, has a finite quota, and the
\* cached usage is that quota less 10 bytes and agrees with the disk
TenBytesLeft ==
    LET auth == requireAuth(cookie, now)
    IN /\ auth.ok
       /\ ~isAdminUser(auth.u)
       /\ usageFile[auth.u].st = "ok"
       /\ Used(readUsage(usageFile, auth.u)) = getQuotaBytes(auth.u) - 10
       /\ usageFile[auth.u].uploadsBytes = statDirBytesRecursive(fs, KindDir(auth.u, <<"uploads">>))
       /\ usageFile[auth.u].generatedBytes = statDirBytesRecursive(fs, KindDir(auth.u, <<"generated">>))

SaveOfSize(kind, n) == SaveStep(kind, DataUrl(ImagePng, DataOfSize(n)), <<>>)

\* C1: for a non-admin user with quota N and cached usage N-10 that agrees
\* with the disk, a save of a 20-byte image into uploads or generated is
\* answered 507, writes no file and leaves the usage unchanged; a save of a
\* 5-byte image is answered 200, writes the image, and afterwards
\* uploadsBytes + generatedBytes is N-5.
C1_QuotaEnforcedOnSave ==
    [][\A kind \in Kinds :
          /\ (SaveOfSize(kind, 20) /\ TenBytesLeft) =>
                 /\ resp'.status = 507
                 /\ fs' = fs
                 /\ usageFile' = usageFile
          /\ (SaveOfSize(kind, 5) /\ TenBytesLeft) =>
                 /\ resp'.status = 200
                 /\ DOMAIN fs' = DOMAIN fs \cup {resp'.file}
                 /\ resp'.file \notin DOMAIN fs
                 /\ Len(fs'[resp'.file]) = 5
                 /\ Used(readUsage(usageFile', requireAuth(cookie, now).u))
                        = getQuotaBytes(requireAuth(cookie, now).u) - 5
                 /\ DiskBytes(fs', requireAuth(cookie, now).u)
                        = getQuotaBytes(requireAuth(cookie, now).u) - 5]_vars

\* alice, 10 bytes short of her quota, was refused a 20-byte image
C1_Witness ==
    /\ req.op = "save"
    /\ req.dataUrl = DataUrl(ImagePng, DataOfSize(20))
    /\ resp.status = 507
    /\ requireAuth(req.token, req.t).ok
    /\ requireAuth(req.token, req.t).u = alice
    /\ Used(readUsage(usageFile, alice)) = QuotaN - 10
    /\ DiskBytes(fs, alice) = QuotaN - 10

\* alice, who was 10 bytes short of her quota, saved a 5-byte image
C1_WitnessAccepted ==
    /\ req.op = "save"
    /\ req.dataUrl = DataUrl(ImagePng, DataOfSize(5))
    /\ req.thumbDataUrl = <<>>
    /\ resp.status = 200
    /\ requireAuth(req.token, req.t).u = alice
    /\ Used(readUsage(usageFile, alice)) = QuotaN - 5

----------------------------------------------------------------------------
(***************************************************************************)
(* JSON values: strings, numbers, null, arrays, and objects as the list of *)
(* their keys in insertion order.  Undefined is what reading a key that    *)
(* is not there gives.                                                     *)
(***************************************************************************)
Str(s) == [t |-> "str", s |-> s]
Num(n) == [t |-> "num", n |-> n]
JNull == [t |-> "null"]
Undefined == [t |-> "undefined"]
Arr(e) == [t |-> "arr", e |-> e]
Obj(kv) == [t |-> "obj", kv |-> kv]
KV(k, v) == [k |-> k, v |-> v]

HasKey(o, k) == o.t = "obj" /\ \E i \in 1..Len(o.kv) : o.kv[i].k = k
KeyIndex(o, k) == CHOOSE i \in 1..Len(o.kv) : o.kv[i].k = k

\* o.k and o?.k
Get(o, k) == IF HasKey(o, k) THEN o.kv[KeyIndex(o, k)].v ELSE Undefined

\* the truthiness of a value
Truthy(v) ==
    CASE v.t = "str" -> v.s # <<>>
      [] v.t = "num" -> v.n # 0
      [] v.t \in {"null", "undefined"} -> FALSE
      [] OTHER -> TRUE

\* a || b
Or(a, b) == IF Truthy(a) THEN a ELSE b

\* {...o, k: v}
SetKey(o, k, v) ==
    IF HasKey(o, k) THEN Obj([o.kv EXCEPT ![KeyIndex(o, k)] = KV(k, v)])
    ELSE Obj(Append(o.kv, KV(k, v)))

\* delete o.k
DelKey(o, k) == Obj(SelectSeq(o.kv, LAMBDA e : e.k # k))

\* String(v) and `${v}`
RECURSIVE ToStr(_)
ToStr(v) ==
    CASE v.t = "str" -> v.s
      [] v.t = "num" -> NumStr(v.n)
      [] v.t = "null" -> <<"null">>
      [] v.t = "undefined" -> <<"undefined">>
      [] v.t = "arr" ->
            Join([i \in 1..Len(v.e) |->
                     IF v.e[i].t \in {"null", "undefined"} THEN <<>> ELSE ToStr(v.e[i])], ",")
      [] OTHER -> <<"[object Object]">>

----------------------------------------------------------------------------
(***************************************************************************)
(* The remote servers a favorite can point at, and fetchUrlBuffer.         *)
(***************************************************************************)
MAX_DOWNLOAD_BYTES == 52428800
REDIRECTS == 3            \* redirectsLeft = 3

ImgUrl == <<"http://", "img">>
PageUrl == <<"https://", "page">>
MissingUrl == <<"http://", "missing">>
DownUrl == <<"http://", "down">>
MovedUrl == <<"http://", "moved">>
LoopUrl == <<"http://", "loop">>
BigUrl == <<"http://", "big">>

\* a chain of redirects HopUrl(n) -> HopUrl(n-1) -> ... -> HopUrl(1) -> ImgUrl
HopUrl(n) == <<"http://", "hop", NumStr(n)>>

RemoteImage == <<1, 1>>          \* the bytes ImgUrl answers with

Response(status, location, contentType, size, buf) ==
    [kind |-> "response", status |-> status, location |-> location,
     contentType |-> contentType, size |-> size, buf |-> buf]

\* what a GET of the URL meets; "error" is a connection that fails
Web(url) ==
    CASE url = ImgUrl -> Response(200, <<>>, ImagePng \o <<";", "q=1">>, 2, RemoteImage)
      [] url = PageUrl -> Response(200, <<>>, <<"text/", "html">>, 1, <<0>>)
      [] url = MissingUrl -> Response(404, <<>>, <<"text/", "html">>, 1, <<0>>)
      [] url = MovedUrl -> Response(302, ImgUrl, <<>>, 0, <<>>)
      [] url = LoopUrl -> Response(302, LoopUrl, <<>>, 0, <<>>)
      [] url = BigUrl -> Response(200, <<>>, ImagePng, MAX_DOWNLOAD_BYTES + 1, <<>>)
      [] url = HopUrl(1) -> Response(302, ImgUrl, <<>>, 0, <<>>)
      [] \E n \in 2..4 : url = HopUrl(n) ->
            Response(301, HopUrl((CHOOSE n \in 2..4 : url = HopUrl(n)) - 1), <<>>, 0, <<>>)
      [] OTHER -> [kind |-> "error"]

isHttpUrl(u) == StartsWith(u, <<"http://">>) \/ StartsWith(u, <<"https://">>)

Rejected(statusCode) == [ok |-> FALSE, statusCode |-> statusCode, buf |-> <<>>, contentType |-> <<>>]

\* fetchUrlBuffer: resolves with {buf, contentType} or rejects; the
\* statusCode of a rejection is 0 where the error carries none
RECURSIVE fetchUrlBuffer(_, _)
fetchUrlBuffer(urlStr, redirectsLeft) ==
    LET r == Web(urlStr)
    IN IF r.kind = "error" THEN Rejected(0)
       ELSE IF r.status \in {301, 302, 303, 307, 308} /\ r.location # <<>> /\ redirectsLeft > 0
       THEN fetchUrlBuffer(r.location, redirectsLeft - 1)
       ELSE IF r.status < 200 \/ r.status >= 300 THEN Rejected(r.status)
       ELSE IF r.size > MAX_DOWNLOAD_BYTES THEN Rejected(413)
       ELSE [ok |-> TRUE, statusCode |-> 0, buf |-> r.buf, contentType |-> r.contentType]

----------------------------------------------------------------------------
(***************************************************************************)
(* POST /api/favorites/add: the materializer.  c is what the closures of   *)
(* the handler see (the user, the type, the favorite's id); st is what    *)
(* changes while the item is walked: the files on disk, the two maps, the *)
(* number of names generated, the remote URLs fetched so far, and err,     *)
(* the status of the error thrown (0 while none is).                       *)
(***************************************************************************)
EmptyMap == [x \in {} |-> <<>>]

MapSet_Forgotten(map, k, v) == map

\* Map.prototype.set
MapSet(map, k, v) == [x \in DOMAIN map \cup {k} |-> IF x = k THEN v ELSE map[x]]

FavDir(c) == PathJoin(UserRoot(c.u), <<"favorites", "/">> \o c.type \o <<"/">> \o c.favoriteId)

FavUri(c, fileName) ==
    <<"/", "files", "/">> \o encodeURIComponent(c.u) \o <<"/", "favorites", "/">> \o c.type
        \o <<"/">> \o encodeURIComponent(c.favoriteId) \o <<"/">> \o encodeURIComponent(fileName)

Result(out, st) == [out |-> out, st |-> st]

materializeDataUrl(dataUrl, c, st) ==
    IF dataUrl \in DOMAIN st.dmap THEN Result(st.dmap[dataUrl], st)
    ELSE LET parsed == parseDataUrl(dataUrl)
             fileName == GenName(st.next, mimeToExt(parsed.mime))
             fileUri == FavUri(c, fileName)
         IN IF ~parsed.ok THEN Result(dataUrl, st)
            ELSE Result(fileUri,
                        [st EXCEPT !.files = WriteFile(st.files, PathJoin(FavDir(c), fileName), parsed.buf),
                                   !.next = st.next + 1,
                                   !.dmap = MapSet(st.dmap, dataUrl, fileUri)])

\* (String(contentType).split(';')[0] || '').trim().toLowerCase()
MimeOfContentType(contentType) == Split(contentType, ";")[1]

materializeRemoteUrl(remoteUrl, c, st) ==
    IF remoteUrl \in DOMAIN st.rmap THEN Result(st.rmap[remoteUrl], st)
    ELSE IF ~isHttpUrl(remoteUrl) THEN Result(remoteUrl, st)
    ELSE LET got == fetchUrlBuffer(remoteUrl, REDIRECTS)
             st1 == [st EXCEPT !.fetched = Append(st.fetched, remoteUrl)]
             mime == MimeOfContentType(got.contentType)
             fileName == GenName(st.next, mimeToExt(mime))
             fileUri == FavUri(c, fileName)
         IN IF ~got.ok
            THEN Result(remoteUrl, [st1 EXCEPT !.err = IF got.statusCode # 0 THEN got.statusCode ELSE 500])
            ELSE IF ~StartsWith(mime, <<"image/">>) THEN Result(remoteUrl, st1)
            ELSE Result(fileUri,
                        [st1 EXCEPT !.files = WriteFile(st.files, PathJoin(FavDir(c), fileName), got.buf),
                                    !.next = st.next + 1,
                                    !.rmap = MapSet(st.rmap, remoteUrl, fileUri)])

FilesPrefix(u) == <<"/", "files", "/">> \o u \o <<"/">>

\* the bytes fsp.copyFile reads: of a JSON file, its text
JsonText == <<2>>
ReadFile(files, p) == IF p \in DOMAIN files THEN files[p] ELSE JsonText

snapshotFileUri_IfExists(fileUri, c, st) ==
    LET rel == decodeURIComponent(SubSeq(fileUri, Len(FilesPrefix(c.u)) + 1, Len(fileUri)))
        src == PathJoin(UserRoot(c.u), rel)
        fileName == GenStem(st.next) \o Extname(rel)
    IN IF ~(src \in DOMAIN st.files \/ IsFile(src))
       THEN Result(FavUri(c, fileName), [st EXCEPT !.next = st.next + 1])
       ELSE Result(FavUri(c, fileName),
                   [st EXCEPT !.files = WriteFile(st.files, PathJoin(FavDir(c), fileName),
                                                  ReadFile(st.files, src)),
                              !.next = st.next + 1])

snapshotFileUri(fileUri, c, st) ==
    LET rel == decodeURIComponent(SubSeq(fileUri, Len(FilesPrefix(c.u)) + 1, Len(fileUri)))
        src == PathJoin(UserRoot(c.u), rel)
        fileName == GenStem(st.next) \o Extname(rel)
    IN IF ~(src \in DOMAIN st.files \/ IsFile(src))
       THEN Result(fileUri, [st EXCEPT !.err = 500])
       ELSE Result(FavUri(c, fileName),
                   [st EXCEPT !.files = WriteFile(st.files, PathJoin(FavDir(c), fileName),
                                                  ReadFile(st.files, src)),
                              !.next = st.next + 1])

InlineOf(o) == Or(Get(o, "inline_data"), Or(Get(o, "inlineData"), Get(o, "inLineData")))

\* convertInlineDataToDataUrl; <<>> is its null
convertInlineDataToDataUrl(o) ==
    LET inline == InlineOf(o)
        mime == Or(Get(inline, "mime_type"), Or(Get(inline, "mimeType"), Str(ImagePng)))
    IN IF ~Truthy(inline) \/ ~Truthy(Get(inline, "data")) THEN <<>>
       ELSE DataUrl(ToStr(mime), ToStr(Get(inline, "data")))

\* the mime_type of the file_data part that replaces an inline part
FileDataMime(node) ==
    Or(Get(Get(node, "inline_data"), "mime_type"),
    Or(Get(Get(node, "inlineData"), "mime_type"),
    Or(Get(Get(node, "inlineData"), "mimeType"),
    Or(Get(Get(node, "inLineData"), "mime_type"),
    Or(Get(Get(node, "inLineData"), "mimeType"), Str(ImagePng))))))

\* assetMime and assetData of a node; <<>> is their null
AssetMime(node) ==
    IF Get(node, "mime").t = "str" /\ Get(node, "mime").s # <<>> THEN Get(node, "mime").s
    ELSE IF Get(node, "mime_type").t = "str" THEN Get(node, "mime_type").s
    ELSE <<>>

AssetData(node) == IF Get(node, "data").t = "str" THEN Get(node, "data").s ELSE <<>>

IsPackedAsset_Never(node) == FALSE

IsPackedAsset(node) ==
    /\ AssetMime(node) # <<>>
    /\ StartsWith(AssetMime(node), <<"image/">>)
    /\ AssetData(node) # <<>>
    /\ ~Truthy(Get(node, "file_uri"))
    /\ ~Truthy(Get(node, "fileUri"))

RECURSIVE traverseAndMaterialize(_, _, _)
RECURSIVE TraverseElements(_, _, _, _)
RECURSIVE TraverseKeys(_, _, _, _)

\* for (let i = 0; i < node.length; i++) node[i] = await traverseAndMaterialize(node[i])
TraverseElements(e, i, c, st) ==
    IF i > Len(e) \/ st.err # 0 THEN Result(e, st)
    ELSE LET r == traverseAndMaterialize(e[i], c, st)
         IN TraverseElements([e EXCEPT ![i] = r.out], i + 1, c, r.st)

\* for (const k of Object.keys(node)) node[k] = await traverseAndMaterialize(node[k])
TraverseKeys(kv, i, c, st) ==
    IF i > Len(kv) \/ st.err # 0 THEN Result(kv, st)
    ELSE LET r == traverseAndMaterialize(kv[i].v, c, st)
         IN TraverseKeys([kv EXCEPT ![i] = KV(kv[i].k, r.out)], i + 1, c, r.st)

traverseAndMaterialize(node, c, st) ==
    IF node.t = "arr"
    THEN LET r == TraverseElements(node.e, 1, c, st) IN Result(Arr(r.out), r.st)
    ELSE IF node.t = "obj"
    THEN IF IsPackedAsset(node)
         THEN LET m == materializeDataUrl(DataUrl(AssetMime(node), AssetData(node)), c, st)
              IN Result(DelKey(SetKey(node, "file_uri", Str(m.out)), "data"), m.st)
         ELSE IF convertInlineDataToDataUrl(node) # <<>>
         THEN LET m == materializeDataUrl(convertInlineDataToDataUrl(node), c, st)
              IN Result(Obj(<<KV("file_data", Obj(<<KV("mime_type", FileDataMime(node)),
                                                    KV("file_uri", Str(m.out))>>))>>), m.st)
         ELSE LET r == TraverseKeys(node.kv, 1, c, st) IN Result(Obj(r.out), r.st)
    ELSE IF node.t = "str"
    THEN IF StartsWith(node.s, <<"data:", "image/">>) /\ Includes(node.s, <<";", "base64", ",">>)
         THEN LET m == materializeDataUrl(node.s, c, st) IN Result(Str(m.out), m.st)
         ELSE IF StartsWith(node.s, FilesPrefix(c.u))
         THEN LET m == snapshotFileUri(node.s, c, st) IN Result(Str(m.out), m.st)
         ELSE IF isHttpUrl(node.s)
         THEN LET m == materializeRemoteUrl(node.s, c, st) IN Result(Str(m.out), m.st)
         ELSE Result(node, st)
    ELSE Result(node, st)

(***************************************************************************)
(* The three favorites routes.  The answer records, besides the status    *)
(* and the body, what the handler did: the files it wrote and the remote  *)
(* URLs it fetched.                                                        *)
(***************************************************************************)
\* a <type>.json file is missing, holds a JSON array (st = "ok"), or holds
\* text that JSON.parse rejects (st = "corrupt", list being what is left of
\* the array that was being written)
readJson_NoFallback(file) == file.list

\* readJson(favPath, []): the fallback for ENOENT and SyntaxError
readJson(file) == IF file.st = "ok" THEN file.list ELSE <<>>

writeJsonAtomic_Torn(value) == [st |-> "corrupt", list |-> value]

writeJsonAtomic(value) == [st |-> "ok", list |-> value]

Unshift_Push(list, x) == Append(list, x)

\* list.unshift(x)
Unshift(list, x) == <<x>> \o list

FavUsage_Metered(usage, u, bytes) == addUsage(usage, u, <<"uploads">>, bytes)

\* what the favorites handler does to usage.json with the bytes it wrote into
\* the favorite's directory: it calls neither assertGalleryHasSpace nor addUsage
FavUsage(usage, u, bytes) == usage

FavAnswer(status, item, written, fetched) ==
    [status |-> status, item |-> item, written |-> written, fetched |-> fetched]

FavoriteId(item, t) == ToStr(Or(Get(item, "id"), Num(t)))

\* POST /api/favorites/add {type, item}
FavAdd(type, item) ==
    LET auth == requireAuth(cookie, now)
        c == [u |-> auth.u, type |-> type, favoriteId |-> FavoriteId(item, now)]
        r == traverseAndMaterialize(item, c, [files |-> fs, dmap |-> EmptyMap, rmap |-> EmptyMap,
                                              next |-> nextFile, fetched |-> <<>>, err |-> 0])
        key == <<auth.u, type>>
    IN /\ req' = [op |-> "favAdd", type |-> type, item |-> item, token |-> cookie, t |-> now]
       /\ IF ~auth.ok
          THEN resp' = FavAnswer(401, Undefined, {}, <<>>) /\ UNCHANGED <<fs, nextFile, favFile, usageFile>>
          ELSE IF type \notin Types
          THEN resp' = FavAnswer(400, Undefined, {}, <<>>) /\ UNCHANGED <<fs, nextFile, favFile, usageFile>>
          ELSE IF item.t \notin {"obj", "arr"}
          THEN resp' = FavAnswer(400, Undefined, {}, <<>>) /\ UNCHANGED <<fs, nextFile, favFile, usageFile>>
          ELSE /\ fs' = r.st.files
               /\ nextFile' = r.st.next
               /\ usageFile' = FavUsage(usageFile, auth.u,
                                        SumSizes(r.st.files, DOMAIN r.st.files \ DOMAIN fs))
               /\ IF r.st.err # 0
                  THEN /\ resp' = FavAnswer(r.st.err, Undefined, DOMAIN r.st.files \ DOMAIN fs, r.st.fetched)
                       /\ favFile' = favFile
                  ELSE /\ resp' = FavAnswer(200, r.out, DOMAIN r.st.files \ DOMAIN fs, r.st.fetched)
                       /\ favFile' = [favFile EXCEPT
                                        ![key] = writeJsonAtomic(Unshift(readJson(favFile[key]), r.out))]
       /\ UNCHANGED <<now, cookie, meta, quotaFile, tasks>>

ApiFavorites == <<"/", "api", "/", "favorites", "/">>

\* GET /api/favorites/<type>
FavList(rawUrl) ==
    LET pathname == decodeURIComponent(UrlPathname(rawUrl))
        auth == requireAuth(cookie, now)
        type == SubSeq(pathname, Len(ApiFavorites) + 1, Len(pathname))
    IN /\ StartsWith(pathname, ApiFavorites)
       /\ req' = [op |-> "favList", url |-> rawUrl, token |-> cookie, t |-> now]
       /\ resp' = IF ~auth.ok THEN FavAnswer(401, Undefined, {}, <<>>)
                  ELSE IF type \notin Types THEN FavAnswer(400, Undefined, {}, <<>>)
                  ELSE FavAnswer(200, Arr(readJson(favFile[<<auth.u, type>>])), {}, <<>>)
       /\ UNCHANGED <<now, cookie, fs, meta, usageFile, quotaFile, favFile, nextFile, tasks>>

SameId_Strict(x, id) == Get(x, "id") = Str(id)

\* String(x?.id) === String(id), id being a path segment
SameId(x, id) == ToStr(Get(x, "id")) = id

\* DELETE /api/favorites/<type>/<id>
FavRemove(rawUrl) ==
    LET pathname == decodeURIComponent(UrlPathname(rawUrl))
        auth == requireAuth(cookie, now)
        parts == FilterBoolean(Split(pathname, "/"))
        id == IF Len(parts) >= 4 THEN parts[4] ELSE ToStr(Undefined)
        key == <<auth.u, parts[3]>>
    IN /\ StartsWith(pathname, ApiFavorites)
       /\ req' = [op |-> "favRemove", url |-> rawUrl, token |-> cookie, t |-> now]
       /\ IF ~auth.ok
          THEN resp' = FavAnswer(401, Undefined, {}, <<>>) /\ favFile' = favFile
          ELSE IF Len(parts) < 3 \/ parts[3] \notin Types
          THEN resp' = FavAnswer(400, Undefined, {}, <<>>) /\ favFile' = favFile
          ELSE /\ resp' = FavAnswer(200, Undefined, {}, <<>>)
               /\ favFile' = [favFile EXCEPT
                                ![key] = writeJsonAtomic(SelectSeq(readJson(favFile[key]),
                                                                   LAMBDA x : ~SameId(x, id)))]
       /\ UNCHANGED <<now, cookie, fs, meta, usageFile, quotaFile, nextFile, tasks>>

----------------------------------------------------------------------------
(***************************************************************************)
(* SpecFav: alice logs in and adds favorites that embed images in each of  *)
(* the shapes the materializer knows, remote URLs that answer in each way  *)
(* fetchUrlBuffer tells apart, and malformed content.                      *)
(***************************************************************************)
MaxFavs == 1       \* favorites in one list

D1 == <<B64(1), B64(0)>>
D2 == <<B64(0)>>

Chats == <<"chats">>

Item(id, kv) == Obj(<<KV("id", Str(<<id>>))>> \o kv)

\* the three shapes of an embedded image
AsString(mime, data) == Str(DataUrl(mime, data))
AsInline(mime, data) == Obj(<<KV("inline_data", Obj(<<KV("mime_type", Str(mime)), KV("data", Str(data))>>))>>)
AsPacked(mime, data) == Obj(<<KV("mime", Str(mime)), KV("data", Str(data))>>)

Shapes == {"string", "inline", "packed"}

Embedded(shape, mime, data) ==
    CASE shape = "string" -> AsString(mime, data)
      [] shape = "inline" -> AsInline(mime, data)
      [] OTHER -> AsPacked(mime, data)

TextPart == Obj(<<KV("text", Str(<<"hi">>))>>)

\* chat messages with inline_data parts
PartsItems ==
    {Item("p1", <<KV("parts", Arr(<<TextPart, AsInline(ImagePng, D1)>>))>>),
     Item("p2", <<KV("parts", Arr(<<AsInline(ImagePng, D2), TextPart, AsInline(ImagePng, D1)>>))>>),
     Item("p3", <<KV("parts", Arr(<<AsInline(ImagePng, <<B64(1), "!">>)>>))>>)}

\* two embedded images, the first a PNG of D1
PairItems ==
    {Item("d", <<KV("a", Embedded(s1, ImagePng, D1)), KV("b", Embedded(s2, m2, d2))>>) :
        s1 \in Shapes, s2 \in Shapes, m2 \in {ImagePng, ImageJpeg}, d2 \in {D1, D2}}

PairUrls == {ImgUrl, PageUrl, MovedUrl}

\* two remote URLs
RemotePairItems ==
    {Item("r", <<KV("a", Str(u1)), KV("b", Str(u2))>>) : u1 \in PairUrls, u2 \in PairUrls}

FailingUrls == {MissingUrl, DownUrl, LoopUrl, BigUrl}

\* an image, a link that may fail, another image
LinkItems ==
    {Item("l", <<KV("a", AsString(ImagePng, D1)), KV("link", Str(u)), KV("b", AsString(ImagePng, D2))>>) :
        u \in FailingUrls \cup {PageUrl}}

WithCharset == <<"data:", "image/", "png", ";", "charset", ";", "base64", ",", B64(1)>>

\* content that is not a well-formed embedded image
MalformedItems ==
    {Item("m1", <<KV("a", Str(WithCharset))>>),
     Item("m2", <<KV("a", Str(DataUrl(ImagePng, <<"!">>)))>>),
     Item("m3", <<KV("a", AsPacked(ImagePng, <<B64(1), "\n", B64(0)>>))>>),
     Item("m4", <<KV("a", AsInline(ImagePng \o <<";", "x">>, D1))>>)}

AliceUpload == PathJoin(KindDir(alice, <<"uploads">>), GenName(0, <<"png">>))

OtherItems ==
    {Item("s1", <<KV("asset", Obj(<<KV("mime", Str(ImagePng)), KV("data", Str(D1)),
                                    KV("preview", AsString(ImagePng, D2))>>))>>),
     Item("s2", <<KV("src", Str(FilesPrefix(alice) \o <<"uploads", "/">> \o GenName(0, <<"png">>)))>>),
     Item("s3", <<KV("src", Str(FilesPrefix(alice) \o <<"uploads", "/", "gone">>))>>),
     Obj(<<KV("name", Str(<<"n">>))>>),
     Arr(<<AsString(ImagePng, D1)>>),
     Str(<<"x">>)}

FavItems == PartsItems \cup PairItems \cup RemotePairItems \cup LinkItems \cup MalformedItems \cup OtherItems

FavAddStep(type, item) ==
    /\ nextFile <= MaxFiles
    /\ \A k \in DOMAIN favFile : Len(favFile[k].list) < MaxFavs
    /\ FavAdd(type, item)

InitFav ==
    /\ now = 1
    /\ cookie = <<>>
    /\ fs = [p \in {AliceUpload} |-> Png]
    /\ meta = [u \in Users |-> MetaOf(u, u = root)]
    /\ usageFile = [u \in Users |->
                      [st |-> "ok", uploadsBytes |-> IF u = alice THEN Len(Png) ELSE 0,
                       generatedBytes |-> 0]]
    /\ quotaFile = [u \in Users |-> IF u = alice THEN Len(Png) ELSE 0]
    /\ favFile = [k \in Users \X Types |-> [st |-> "missing", list |-> <<>>]]
    /\ nextFile = 1
    /\ tasks = NoTasks
    /\ req = [op |-> "none"]
    /\ resp = FavAnswer(0, Undefined, {}, <<>>)

NextFav ==
    \/ Login(alice, PasswordOf(alice))
    \/ \E item \in FavItems : FavAddStep(Chats, item)
    \/ FavAddStep(<<"bogus">>, TextPart)
    \/ \E type \in {Chats, <<"bogus">>} : FavList(ApiFavorites \o type)

SpecFav == InitFav /\ [][NextFav]_vars

\* an add by a logged-in user into a list that exists
Accepted == req.op = "favAdd" /\ requireAuth(req.token, req.t).ok /\ req.type \in Types

\* the value is, or holds somewhere, an inline image payload
RECURSIVE HasInlinePayload(_)
HasInlinePayload(v) ==
    CASE v.t = "str" ->
            StartsWith(v.s, <<"data:", "image/">>) /\ Includes(v.s, <<";", "base64", ",">>)
      [] v.t = "arr" -> \E i \in 1..Len(v.e) : HasInlinePayload(v.e[i])
      [] v.t = "obj" ->
            \/ \E k \in {"inline_data", "inlineData", "inLineData"} : Truthy(Get(Get(v, k), "data"))
            \/ StartsWith(AssetMime(v), <<"image/">>) /\ AssetData(v) # <<>>
            \/ \E i \in 1..Len(v.kv) : HasInlinePayload(v.kv[i].v)
      [] OTHER -> FALSE

\* C5: no favorite stored in a list holds an inline image payload: no
\* data:image/...;base64, string, no inline_data object carrying data, no
\* object with an image/* mime together with a data string.
C5_NoInlinePayloadStored ==
    \A k \in DOMAIN favFile :
        \A i \in 1..Len(favFile[k].list) : ~HasInlinePayload(favFile[k].list[i])

IsBase64(data) == data # <<>> /\ \A i \in 1..Len(data) : \E b \in Bytes : data[i] = B64(b)

FavDirOfRequest ==
    FavDir([u |-> requireAuth(req.token, req.t).u, type |-> req.type,
            favoriteId |-> FavoriteId(req.item, req.t)])

\* C6: when an added item has a part {inline_data: {mime_type: 'image/png',
\* data}} with data base64 text, the part stored in its place has no
\* inline_data key and a file_data.file_uri; a GET of that uri by the same
\* user serves a file of the favorite's directory, and the base64 encoding
\* of that file's bytes is data.
C6_InlineDataRoundTrip ==
    (Accepted /\ resp.status = 200 /\ Get(req.item, "parts").t = "arr") =>
        \A j \in 1..Len(Get(req.item, "parts").e) :
            LET part == Get(req.item, "parts").e[j]
                data == Get(Get(part, "inline_data"), "data")
                out == Get(resp.item, "parts").e[j]
                uri == Get(Get(out, "file_data"), "file_uri")
                served == HandleGet(uri.s, req.token, FALSE, req.t)
            IN (data.t = "str" /\ IsBase64(data.s) /\ part = AsInline(ImagePng, data.s)) =>
                   /\ ~HasKey(out, "inline_data")
                   /\ uri.t = "str"
                   /\ served.status = 200
                   /\ served.file \in DOMAIN fs
                   /\ Below(served.file, FavDirOfRequest)
                   /\ Base64Encode(fs[served.file]) = data.s

\* an item with one inline PNG part was added and its part became a file_data part
C6_Witness ==
    /\ Accepted
    /\ resp.status = 200
    /\ req.item = Item("p1", <<KV("parts", Arr(<<TextPart, AsInline(ImagePng, D1)>>))>>)
    /\ HasKey(Get(resp.item, "parts").e[2], "file_data")
    /\ Cardinality(resp.written) = 1

\* the data URL an embedded image is materialized from, its base64 text, and
\* the reference that replaces it
SourceOf(v) ==
    IF v.t = "str" THEN v.s
    ELSE IF IsPackedAsset(v) THEN DataUrl(AssetMime(v), AssetData(v))
    ELSE convertInlineDataToDataUrl(v)

DataTextOf(v) ==
    IF v.t = "str"
    THEN SubSeq(v.s, (CHOOSE i \in 1..Len(v.s) : v.s[i] = "," /\ \A j \in 1..(i - 1) : v.s[j] # ",") + 1,
                Len(v.s))
    ELSE IF HasKey(v, "data") THEN Get(v, "data").s
    ELSE Get(Get(v, "inline_data"), "data").s

UriOf(out) ==
    IF out.t = "str" THEN out.s
    ELSE IF HasKey(out, "file_data") THEN Get(Get(out, "file_data"), "file_uri").s
    ELSE Get(out, "file_uri").s

\* the remote URL answers, redirects followed, with an image
YieldsImage(url) ==
    /\ fetchUrlBuffer(url, REDIRECTS).ok
    /\ StartsWith(MimeOfContentType(fetchUrlBuffer(url, REDIRECTS).contentType), <<"image/">>)

C8_RemoteFailureSwallowed ==
    (Accepted /\ req.item \in LinkItems) =>
        /\ resp.status = 200
        /\ Get(resp.item, "link") = Get(req.item, "link")
        /\ StartsWith(Get(resp.item, "a").s, <<"/", "files", "/">>)
        /\ StartsWith(Get(resp.item, "b").s, <<"/", "files", "/">>)
        /\ readJson(favFile[<<requireAuth(req.token, req.t).u, req.type>>])[1] = resp.item

\* C9: an add whose item holds malformed embedded content is answered 200,
\* writes no file, and stores the item as it was given.
C9_MalformedPassesThrough ==
    (Accepted /\ req.item \in MalformedItems) =>
        /\ resp.status = 200
        /\ resp.written = {}
        /\ resp.item = req.item

----------------------------------------------------------------------------
(***************************************************************************)
(* SpecColl: alice adds plain items to her collections list, lists it and  *)
(* removes items by id.                                                    *)
(***************************************************************************)
MaxList == 3       \* items in the list

Collections == <<"collections">>

CollItems ==
    {Obj(<<KV("id", Str(<<"a">>))>>),
     Obj(<<KV("id", Num(1)), KV("name", Str(<<"one">>))>>),
     Obj(<<KV("id", Str(<<"1">>))>>),
     Obj(<<KV("name", Str(<<"anonymous">>))>>),
     Num(1)}

CollTypes == {Collections, <<"bogus">>}

RemoveUrls ==
    {ApiFavorites \o type \o <<"/">> \o id :
        type \in CollTypes, id \in {<<"a">>, <<"1">>, <<"undefined">>, <<"zz">>}}
        \cup {ApiFavorites \o Collections}

CollAddStep(type, item) ==
    /\ \A k \in DOMAIN favFile : Len(readJson(favFile[k])) < MaxList
    /\ FavAdd(type, item)

\* what is left of a collections file whose writer was cut short
Garbage == <<Str(<<"[{">>)>>

InitColl ==
    /\ now = 1
    /\ cookie = <<>>
    /\ fs = NoFiles
    /\ meta = [u \in Users |-> MetaOf(u, u = root)]
    /\ usageFile = [u \in Users |-> [st |-> "ok", uploadsBytes |-> 0, generatedBytes |-> 0]]
    /\ quotaFile = [u \in Users |-> 0]
    /\ \E file \in {[st |-> "missing", list |-> <<>>], [st |-> "corrupt", list |-> Garbage]} :
           favFile = [k \in Users \X Types |->
                         IF k = <<alice, Collections>> THEN file
                         ELSE [st |-> "missing", list |-> <<>>]]
    /\ nextFile = 0
    /\ tasks = NoTasks
    /\ req = [op |-> "none"]
    /\ resp = FavAnswer(0, Undefined, {}, <<>>)

NextColl ==
    \/ Login(alice, PasswordOf(alice))
    \/ Logout
    \/ \E type \in CollTypes, item \in CollItems : CollAddStep(type, item)
    \/ \E type \in CollTypes : FavList(ApiFavorites \o type)
    \/ \E rawUrl \in RemoveUrls : FavRemove(rawUrl)

SpecColl == InitColl /\ [][NextColl]_vars

\* the id of a list element as a string
IdString(x) == ToStr(Get(x, "id"))

Without(list, id) == SelectSeq(list, LAMBDA x : IdString(x) # id)

\* the <type> and <id> segments of /api/favorites/<type>/<id>
SegmentsOf(rawUrl) == FilterBoolean(Split(decodeURIComponent(UrlPathname(rawUrl)), "/"))

\* C10: a remove by a logged-in user of id from a list is answered 200 and
\* leaves in the list exactly the elements whose id, as a string, is not
\* id, in their order; when no element has that id the list is as before;
\* removing the same id from the result changes nothing; every other list
\* is untouched.
C10_RemoveByStringId ==
    [][\A rawUrl \in RemoveUrls :
          LET auth == requireAuth(cookie, now)
              type == SegmentsOf(rawUrl)[3]
              id == SegmentsOf(rawUrl)[4]
              before == readJson(favFile[<<auth.u, type>>])
              after == readJson(favFile'[<<auth.u, type>>])
          IN (FavRemove(rawUrl) /\ auth.ok /\ Len(SegmentsOf(rawUrl)) = 4 /\ type \in Types) =>
                 /\ resp'.status = 200
                 /\ after = Without(before, id)
                 /\ (\A i \in 1..Len(before) : IdString(before[i]) # id) => after = before
                 /\ Without(after, id) = after
                 /\ \A k \in DOMAIN favFile : k # <<auth.u, type>> => favFile'[k] = favFile[k]]_vars

\* a remove of id "1" left a list that holds other items and none of id 1 or "1"
C10_Witness ==
    /\ req.op = "favRemove"
    /\ req.url = ApiFavorites \o Collections \o <<"/", "1">>
    /\ resp.status = 200
    /\ requireAuth(req.token, req.t).u = alice
    /\ Len(favFile[<<alice, Collections>>].list) = 2
    /\ Without(favFile[<<alice, Collections>>].list, <<"1">>) = favFile[<<alice, Collections>>].list

\* a is b with some elements left out, the others in their order
RECURSIVE IsSubSeq(_, _)
IsSubSeq(a, b) ==
    IF a = <<>> THEN TRUE
    ELSE IF b = <<>> THEN FALSE
    ELSE IF a[1] = b[1] THEN IsSubSeq(Tail(a), Tail(b))
    ELSE IsSubSeq(a, Tail(b))

\* C11: an add accepted from a logged-in user puts the item at index 0 of the
\* (user, type) list and leaves the elements that were there behind it in
\* their order; into an empty list it leaves a list of length 1 whose first
\* element is the item; a remove leaves the survivors in their order; a list
\* request answers with the stored array as it is.  Every list is therefore
\* most-recent-first.
C11_MostRecentFirst ==
    [][/\ \A type \in Types, item \in CollItems :
             LET auth == requireAuth(cookie, now)
                 before == readJson(favFile[<<auth.u, type>>])
                 after == readJson(favFile'[<<auth.u, type>>])
             IN (CollAddStep(type, item) /\ auth.ok /\ item.t = "obj") =>
                    /\ resp'.status = 200
                    /\ after = <<item>> \o before
                    /\ before = <<>> => (Len(after) = 1 /\ after[1] = item)
                    /\ favFile'[<<auth.u, type>>].st = "ok"
       /\ \A rawUrl \in RemoveUrls :
             FavRemove(rawUrl) =>
                 \A k \in DOMAIN favFile : IsSubSeq(readJson(favFile'[k]), readJson(favFile[k]))
       /\ \A type \in Types :
             (FavList(ApiFavorites \o type) /\ requireAuth(cookie, now).ok) =>
                 resp'.item = Arr(readJson(favFile[<<requireAuth(cookie, now).u, type>>]))]_vars

\* alice's list holds the item she added last in front of an older, different one
C11_Witness ==
    /\ req.op = "favAdd"
    /\ resp.status = 200
    /\ requireAuth(req.token, req.t).u = alice
    /\ Len(readJson(favFile[<<alice, Collections>>])) >= 2
    /\ readJson(favFile[<<alice, Collections>>])[1] = req.item
    /\ readJson(favFile[<<alice, Collections>>])[2] # req.item

\* C12: while <type>.json is missing or is not parseable JSON, a list request
\* is answered 200 with an empty array, and an add is answered 200 and leaves
\* a parseable file whose list is exactly the new item.
C12_SelfHealingRead ==
    [][\A type \in Types :
          LET auth == requireAuth(cookie, now)
              file == favFile[<<auth.u, type>>]
          IN (auth.ok /\ file.st \in {"missing", "corrupt"}) =>
                 /\ FavList(ApiFavorites \o type) =>
                        (resp'.status = 200 /\ resp'.item = Arr(<<>>))
                 /\ \A item \in CollItems :
                        (CollAddStep(type, item) /\ item.t = "obj") =>
                            /\ resp'.status = 200
                            /\ favFile'[<<auth.u, type>>] = [st |-> "ok", list |-> <<item>>]]_vars

\* alice asked for her collections while the file was unparseable, and was
\* answered with an empty array
C12_Witness ==
    /\ req.op = "favList"
    /\ req.url = ApiFavorites \o Collections
    /\ requireAuth(req.token, req.t).u = alice
    /\ favFile[<<alice, Collections>>].st = "corrupt"
    /\ resp.status = 200
    /\ resp.item = Arr(<<>>)

----------------------------------------------------------------------------
(***************************************************************************)
(* Registration and the admin bootstrap of main().                         *)
(***************************************************************************)
\* no meta.json: loadUserMeta returns null
Absent == [exists |-> FALSE, isAdmin |-> FALSE, salt |-> <<>>, hash |-> <<>>]

NoUsage == [st |-> "missing", uploadsBytes |-> 0, generatedBytes |-> 0]

\* the number of characters an atom stands for
CharLen(a) ==
    CASE a = "ali" -> 3
      [] a = "ce" -> 2
      [] a = "bob" -> 3
      [] a = "root" -> 4
      [] a = "pw-" -> 3
      [] a = "12345" -> 5
      [] OTHER -> 1

\* String.prototype.length
RECURSIVE StrLen(_)
StrLen(str) == IF str = <<>> THEN 0 ELSE CharLen(Head(str)) + StrLen(Tail(str))

MIN_PASSWORD == 6

loadUserMeta_Missing(m, username) == Absent

\* loadUserMeta: readJson(metaPath, null)
loadUserMeta(m, username) == m[username]

\* the user has a directory under USERS_ROOT: every write below it goes
\* through ensureDir, and nothing ever removes a user directory
HasDir(m, usage, files, favs, u) ==
    \/ m[u].exists
    \/ usage[u].st # "missing"
    \/ \E q \in DOMAIN files : StartsWith(q, UserRoot(u) \o <<"/">>)
    \/ \E k \in DOMAIN favs : k[1] = u /\ favs[k].st # "missing"

listUsers_Nobody(m, usage, files, favs) == {}

\* listUsers: the directories of USERS_ROOT
listUsers(m, usage, files, favs) == {u \in DOMAIN m : HasDir(m, usage, files, favs, u)}

\* the bootstrap of main(): BANANA_ADMIN_USER and BANANA_ADMIN_PASS; m is
\* the meta files it finds, salt the random salt drawn when there was none
Bootstrap(m, adminUser, adminPass, salt) ==
    IF sanitizeUsername(adminUser) /\ StrLen(adminPass) >= MIN_PASSWORD
    THEN LET existing == loadUserMeta(m, adminUser)
             s == IF existing.exists THEN existing.salt ELSE salt
         IN [m EXCEPT ![adminUser] = [exists |-> TRUE, isAdmin |-> TRUE, salt |-> s,
                                      hash |-> hashPassword(adminPass, s)]]
    ELSE m

RegAnswer(status, isAdmin) == [status |-> status, file |-> <<>>, isAdmin |-> isAdmin]

\* POST /api/auth/register {username, password}; salt is crypto.randomBytes(16)
Register(username, password, salt) ==
    LET existing == loadUserMeta(meta, username)
        firstUserBecomesAdmin == listUsers(meta, usageFile, fs, favFile) = {}
    IN /\ req' = [op |-> "register", url |-> username, password |-> password,
                  token |-> cookie, t |-> now]
       /\ IF ~sanitizeUsername(username)
          THEN resp' = RegAnswer(400, FALSE) /\ UNCHANGED <<meta, usageFile>>
          ELSE IF StrLen(password) < MIN_PASSWORD
          THEN resp' = RegAnswer(400, FALSE) /\ UNCHANGED <<meta, usageFile>>
          ELSE IF existing.exists
          THEN resp' = RegAnswer(409, FALSE) /\ UNCHANGED <<meta, usageFile>>
          ELSE /\ meta' = [meta EXCEPT ![username] =
                               [exists |-> TRUE, isAdmin |-> firstUserBecomesAdmin, salt |-> salt,
                                hash |-> hashPassword(password, salt)]]
               /\ usageFile' = writeUsage(usageFile, username,
                                          [uploadsBytes |-> 0, generatedBytes |-> 0])
               /\ resp' = RegAnswer(200, firstUserBecomesAdmin)
       /\ UNCHANGED <<now, cookie, fs, quotaFile, favFile, nextFile, tasks>>

----------------------------------------------------------------------------
(***************************************************************************)
(* SpecReg: the server starts on an empty data directory, with or without  *)
(* the admin of the environment; users register, log in and save images.   *)
(***************************************************************************)
BadName == <<"a", "b">>             \* two characters

RegNames == {root, alice, bob, BadName}

ShortPassword == <<"12345">>

GoodPassword == PasswordOf(alice)

RegPasswords == {GoodPassword, ShortPassword}

RegSalts(u) == {SaltOf(u), <<"salt2-">> \o u}

\* BANANA_ADMIN_USER / BANANA_ADMIN_PASS: unset, or root with its password
Environments == {[user |-> <<>>, pass |-> <<>>], [user |-> root, pass |-> PasswordOf(root)]}

SmallUpload == DataUrl(ImagePng, DataOfSize(5))

InitReg ==
    /\ now = 1
    /\ cookie = <<>>
    /\ fs = NoFiles
    /\ \E env \in Environments :
           meta = Bootstrap([u \in Users |-> Absent], env.user, env.pass, SaltOf(root))
    /\ usageFile = [u \in Users |-> NoUsage]
    /\ quotaFile = [u \in Users |-> 0]
    /\ favFile = [k \in Users \X Types |-> [st |-> "missing", list |-> <<>>]]
    /\ nextFile = 0
    /\ tasks = NoTasks
    /\ req = [op |-> "none"]
    /\ resp = RegAnswer(0, FALSE)

NextReg ==
    \/ \E username \in RegNames, password \in RegPasswords :
           \E salt \in RegSalts(username) : Register(username, password, salt)
    \/ \E username \in RegNames \ {BadName}, password \in {GoodPassword, PasswordOf(root)} :
           Login(username, password)
    \/ Logout
    \/ SaveStep(<<"uploads">>, SmallUpload, <<>>)

SpecReg == InitReg /\ [][NextReg]_vars

\* somebody is registered: a meta.json exists
Registered == {u \in Users : meta[u].exists}

\* C14: a registration that succeeds makes the user an admin, in the stored
\* record and in the answer, exactly when no user directory exists at that
\* time; in a run that starts on an empty data directory that is exactly
\* when nobody has registered before and no admin was installed from the
\* environment.
C14_FirstRegistrantIsAdmin ==
    [][\A username \in RegNames, password \in RegPasswords :
          \A salt \in RegSalts(username) :
              (Register(username, password, salt) /\ resp'.status = 200) =>
                  /\ resp'.isAdmin <=> (listUsers(meta, usageFile, fs, favFile) = {})
                  /\ resp'.isAdmin <=> (Registered = {})
                  /\ meta'[username].exists
                  /\ meta'[username].isAdmin = resp'.isAdmin
                  /\ \A u \in Users \ {username} : meta'[u] = meta[u]]_vars

\* a later registrant was not made an admin: somebody else is
C14_Witness ==
    /\ req.op = "register"
    /\ resp.status = 200
    /\ ~resp.isAdmin
    /\ ~meta[req.url].isAdmin
    /\ \E u \in Users \ {req.url} : meta[u].isAdmin

\* the first registrant of a server without an environment admin is the admin
C14_WitnessFirst ==
    /\ req.op = "register"
    /\ resp.status = 200
    /\ resp.isAdmin
    /\ Registered = {req.url}

\* C15 as stated: registering a username that has a stored record is
\* answered 409, whatever the password.
C15_DuplicateAlways409 ==
    [][\A username \in RegNames, password \in RegPasswords :
          \A salt \in RegSalts(username) :
              (Register(username, password, salt) /\ username \in Users /\ meta[username].exists) =>
                  resp'.status = 409]_vars

\* C15: registering a username that has a stored record is answered 409
\* when the password has 6 characters or more and 400 when it is shorter
\* (the password is validated first); a bad username is answered 400; in
\* each case no meta.json and no usage.json changes.
C15_DuplicateRejected ==
    [][\A username \in RegNames, password \in RegPasswords :
          \A salt \in RegSalts(username) :
              /\ (Register(username, password, salt) /\ username \in Users /\ meta[username].exists) =>
                     /\ resp'.status = IF StrLen(password) < MIN_PASSWORD THEN 400 ELSE 409
                     /\ meta' = meta
                     /\ usageFile' = usageFile
                     /\ cookie' = cookie
              /\ (Register(username, password, salt) /\ username = BadName) =>
                     /\ resp'.status = 400
                     /\ meta' = meta
                     /\ usageFile' = usageFile]_vars

\* a registered user with bytes in use was registered again and answered 409
C15_Witness ==
    /\ req.op = "register"
    /\ resp.status = 409
    /\ meta[req.url].exists
    /\ Used(readUsage(usageFile, req.url)) > 0

----------------------------------------------------------------------------
(***************************************************************************)
(* SpecDrift: alice, with a quota.json of QuotaN, saves images while her   *)
(* usage.json is deleted or zeroed behind the server's back.               *)
(***************************************************************************)
DriftSizes == {10, 20}

DriftInputs ==
    {<<kind, DataUrl(ImagePng, DataOfSize(n))>> : kind \in Kinds, n \in DriftSizes}

\* usage.json of the user is deleted, or overwritten with zeros
LoseUsage(u, how) ==
    /\ usageFile' = [usageFile EXCEPT ![u] =
                        IF how = "deleted" THEN NoUsage
                        ELSE [st |-> "ok", uploadsBytes |-> 0, generatedBytes |-> 0]]
    /\ req' = [op |-> "loseUsage", how |-> how]
    /\ resp' = Status(0)
    /\ UNCHANGED <<now, cookie, fs, meta, quotaFile, favFile, nextFile, tasks>>

NextDrift ==
    \/ Login(alice, PasswordOf(alice))
    \/ \E in \in DriftInputs : SaveStep(in[1], in[2], <<>>)
    \/ \E how \in {"deleted", "zeroed"} : LoseUsage(alice, how)
    \/ StorageUsage

SpecDrift == InitQuota /\ [][NextDrift]_vars

\* usage.json of the user is missing or reads as zero while files are on disk
UsageLost(u) == Used(readUsage(usageFile, u)) = 0 /\ DiskBytes(fs, u) > 0

\* C16: when usage.json is missing or zeroed while files exist, a save that
\* does not fit beside the files on disk is answered 507 and writes nothing,
\* and the usage record then equals the byte sums of the two directories.
C16_RecomputeBeforeDeciding ==
    [][\A in \in DriftInputs :
          LET auth == requireAuth(cookie, now)
              size == Len(parseDataUrl(in[2]).buf)
          IN (/\ SaveStep(in[1], in[2], <<>>)
              /\ auth.ok
              /\ UsageLost(auth.u)
              /\ DiskBytes(fs, auth.u) + size > getQuotaBytes(auth.u)) =>
                 /\ resp'.status = 507
                 /\ fs' = fs
                 /\ Used(readUsage(usageFile', auth.u)) = DiskBytes(fs, auth.u)]_vars

\* C17: the quota check never fails for the admin, whatever the cached
\* usage, the quota.json override and the incoming size, and a save of the
\* admin into uploads or generated is answered 200; for a kind other than
\* uploads and generated the check passes and the check, addUsage and
\* changeUsage leave every usage.json as it is.
C17_AdminExemption ==
    /\ \A kind \in SaveKinds, n \in SaveSizes \cup {QuotaN + 1} :
           /\ assertGalleryHasSpace(fs, usageFile, root, kind, n) = [ok |-> TRUE, usage |-> usageFile]
           /\ kind \notin Kinds =>
                  \A u \in {alice, root} :
                      /\ assertGalleryHasSpace(fs, usageFile, u, kind, n)
                             = [ok |-> TRUE, usage |-> usageFile]
                      /\ addUsage(usageFile, u, kind, n) = usageFile
                      /\ changeUsage(usageFile, u, kind, 0 - n) = usageFile
    /\ (/\ req.op = "save"
        /\ requireAuth(req.token, req.t).ok
        /\ requireAuth(req.token, req.t).u = root
        /\ req.kind \in Kinds
        /\ parseDataUrl(req.dataUrl).ok) => resp.status = 200

\* the admin, whose quota.json says AdminQuota, holds more than that after a save
C17_Witness ==
    /\ req.op = "save"
    /\ requireAuth(req.token, req.t).u = root
    /\ resp.status = 200
    /\ meta[root].isAdmin
    /\ quotaFile[root] = AdminQuota
    /\ DiskBytes(fs, root) > AdminQuota
    /\ Used(readUsage(usageFile, root)) > AdminQuota

\* the user's gallery is full: the cached usage has reached the quota
AtQuota(u) == ~isAdminUser(u) /\ Used(readUsage(usageFile, u)) >= getQuotaBytes(u)

----------------------------------------------------------------------------
(***************************************************************************)
(* Requests in flight.  A handler runs until it awaits; between two awaits *)
(* of one request the steps of another request can run.  A task records    *)
(* where its handler stands (pc) and the handler's locals.                 *)
(*                                                                         *)
(* POST /api/images/save without a thumbnail, in four steps: up to and     *)
(* including assertGalleryHasSpace; fsp.writeFile; the readUsage of        *)
(* addUsage; its writeUsage and the response.                              *)
(***************************************************************************)
Slots == {1, 2}        \* the requests that can be in flight at once

Spawn(id, task) == [i \in DOMAIN tasks \cup {id} |-> IF i = id THEN task ELSE tasks[i]]

Retire(id) == [i \in DOMAIN tasks \ {id} |-> tasks[i]]

SaveBegin(id, kind, dataUrl) ==
    LET auth == requireAuth(cookie, now)
        parsed == parseDataUrl(dataUrl)
        space == assertGalleryHasSpace(fs, usageFile, auth.u, kind, Len(parsed.buf))
        absPath == PathJoin(KindDir(auth.u, kind), GenName(nextFile, mimeToExt(parsed.mime)))
        request == [op |-> "save", kind |-> kind, dataUrl |-> dataUrl, thumbDataUrl |-> <<>>,
                    token |-> cookie, t |-> now]
    IN /\ id \notin DOMAIN tasks
       /\ IF ~auth.ok \/ kind \notin Kinds \/ ~parsed.ok \/ ~space.ok
          THEN /\ req' = request
               /\ resp' = Status(IF ~auth.ok THEN 401
                                 ELSE IF kind \notin Kinds \/ ~parsed.ok THEN 400 ELSE 507)
               /\ usageFile' = IF auth.ok /\ kind \in Kinds /\ parsed.ok THEN space.usage
                                ELSE usageFile
               /\ UNCHANGED <<nextFile, tasks>>
          ELSE /\ tasks' = Spawn(id, [pc |-> "writeFile", request |-> request, u |-> auth.u,
                                      kind |-> kind, buf |-> parsed.buf, absPath |-> absPath,
                                      usage |-> NoUsage])
               /\ nextFile' = nextFile + 1
               /\ usageFile' = space.usage
               /\ UNCHANGED <<req, resp>>
       /\ UNCHANGED <<now, cookie, fs, meta, quotaFile, favFile>>

\* await fsp.writeFile(absPath, parsed.buf)
SaveWriteFile(id) ==
    /\ id \in DOMAIN tasks
    /\ tasks[id].pc = "writeFile"
    /\ fs' = WriteFile(fs, tasks[id].absPath, tasks[id].buf)
    /\ tasks' = [tasks EXCEPT ![id].pc = "readUsage"]
    /\ UNCHANGED <<now, cookie, meta, usageFile, quotaFile, favFile, nextFile, req, resp>>

\* addUsage: const usage = await readUsage(username)
SaveReadUsage(id) ==
    /\ id \in DOMAIN tasks
    /\ tasks[id].pc = "readUsage"
    /\ tasks' = [tasks EXCEPT ![id].pc = "writeUsage",
                              ![id].usage = [st |-> "ok"] @@ readUsage(usageFile, tasks[id].u)]
    /\ UNCHANGED <<now, cookie, fs, meta, usageFile, quotaFile, favFile, nextFile, req, resp>>

\* addUsage: usage.<kind>Bytes += b; await writeUsage(username, usage); then
\* the response
SaveWriteUsage(id) ==
    LET task == tasks[id]
        read == [usageFile EXCEPT ![task.u] = task.usage]
    IN /\ id \in DOMAIN tasks
       /\ task.pc = "writeUsage"
       /\ usageFile' = [usageFile EXCEPT
                           ![task.u] = addUsage(read, task.u, task.kind, Len(task.buf))[task.u]]
       /\ tasks' = Retire(id)
       /\ req' = task.request
       /\ resp' = [status |-> 200, file |-> task.absPath]
       /\ UNCHANGED <<now, cookie, fs, meta, quotaFile, favFile, nextFile>>

----------------------------------------------------------------------------
(***************************************************************************)
(* POST /api/images/delete {fileUri} and POST /api/images/clear {kind}.    *)
(***************************************************************************)
\* String.prototype.endsWith
EndsWith(str, suffix) ==
    Len(suffix) <= Len(str) /\ SubSeq(str, Len(str) - Len(suffix) + 1, Len(str)) = suffix

\* /^\/files\/([^/]+)\/(uploads|generated)\/([^/?#]+)$/
MatchFileUri(fileUri) ==
    LET parts == Split(fileUri, "/")
    IN IF /\ Len(parts) = 5
          /\ parts[1] = <<>>
          /\ parts[2] = <<"files">>
          /\ parts[3] # <<>>
          /\ parts[4] \in Kinds
          /\ parts[5] # <<>>
          /\ ~Includes(parts[5], <<"?">>)
          /\ ~Includes(parts[5], <<"#">>)
       THEN [ok |-> TRUE, user |-> parts[3], kind |-> parts[4], name |-> parts[5]]
       ELSE [ok |-> FALSE, user |-> <<>>, kind |-> <<>>, name |-> <<>>]

\* the path names a directory: something is stored below it
IsDir(files, q) == \E f \in DOMAIN files : StartsWith(f, q \o <<"/">>)

\* safeStatSize
safeStatSize(files, absPath) == IF absPath \in DOMAIN files THEN Len(files[absPath]) ELSE 0

\* safeUnlink: the files after it
safeUnlink(files, absPath) == [q \in DOMAIN files \ {absPath} |-> files[q]]

\* removeDirContentsRecursive
removeDirContentsRecursive(files, dirPath) ==
    [q \in {f \in DOMAIN files : ~StartsWith(f, dirPath \o <<"/">>)} |-> files[q]]

DeleteImage(fileUri) ==
    \* each local of the handler is bound once
    \E auth \in {requireAuth(cookie, now)}, m \in {MatchFileUri(fileUri)} :
    \E userFromUri \in {decodeURIComponent(m.user)}, fileName \in {decodeURIComponent(m.name)},
       baseDir \in {PathJoin(USERS_ROOT, auth.u)} :
    \E absPath \in {PathJoin(PathJoin(baseDir, m.kind), fileName)} :
    \E removedBytes \in {safeStatSize(fs, absPath)}, fs1 \in {safeUnlink(fs, absPath)},
       thumbPath \in {getThumbPathForImagePath(absPath)} :
    \E usage1 \in {IF absPath \in DOMAIN fs /\ removedBytes # 0
                  THEN changeUsage(usageFile, auth.u, m.kind, 0 - removedBytes)
                  ELSE usageFile},
       thumbBytes \in {safeStatSize(fs1, thumbPath)}, fs2 \in {safeUnlink(fs1, thumbPath)} :
    \E usage2 \in {IF thumbPath \in DOMAIN fs1 /\ thumbBytes # 0
                  THEN changeUsage(usage1, auth.u, m.kind, 0 - thumbBytes)
                  ELSE usage1} :
       /\ req' = [op |-> "delete", url |-> fileUri, token |-> cookie, t |-> now]
       /\ IF ~auth.ok THEN resp' = Status(401) /\ UNCHANGED <<fs, usageFile>>
          ELSE IF ~m.ok THEN resp' = Status(400) /\ UNCHANGED <<fs, usageFile>>
          ELSE IF userFromUri # auth.u THEN resp' = Status(403) /\ UNCHANGED <<fs, usageFile>>
          ELSE IF Includes(fileName, <<"/">>) \/ Includes(fileName, <<"\\">>)
          THEN resp' = Status(400) /\ UNCHANGED <<fs, usageFile>>
          ELSE IF EndsWith(fileName, <<".", "webp">>) /\ Includes(fileUri, <<"/", "thumbs", "/">>)
          THEN resp' = Status(400) /\ UNCHANGED <<fs, usageFile>>
          ELSE IF ~StartsWith(absPath, baseDir)
          THEN resp' = Status(400) /\ UNCHANGED <<fs, usageFile>>
          ELSE IF IsDir(fs, absPath)
          THEN resp' = Status(500) /\ UNCHANGED <<fs, usageFile>>
          ELSE /\ resp' = Status(200)
               /\ fs' = fs2
               /\ usageFile' = usage2
       /\ UNCHANGED <<now, cookie, meta, quotaFile, favFile, nextFile, tasks>>

All == <<"all">>

ClearImages(kindRaw) ==
    LET auth == requireAuth(cookie, now)
        kinds == IF kindRaw = All THEN Kinds ELSE {kindRaw}
        fs1 == [q \in {f \in DOMAIN fs :
                          \A k \in kinds : f \in DOMAIN removeDirContentsRecursive(fs, KindDir(auth.u, k))}
                  |-> fs[q]]
    IN /\ req' = [op |-> "clear", kind |-> kindRaw, token |-> cookie, t |-> now]
       /\ IF ~auth.ok THEN resp' = Status(401) /\ UNCHANGED <<fs, usageFile>>
          ELSE IF ~(kinds \subseteq Kinds) THEN resp' = Status(400) /\ UNCHANGED <<fs, usageFile>>
          ELSE /\ resp' = Status(200)
               /\ fs' = fs1
               /\ usageFile' = recomputeUsage(fs1, usageFile, auth.u)
       /\ UNCHANGED <<now, cookie, meta, quotaFile, favFile, nextFile, tasks>>

----------------------------------------------------------------------------
(***************************************************************************)
(* SpecRace: alice, with a quota.json of QuotaN and nothing stored, sends  *)
(* save requests that can be in flight together, and deletes what she      *)
(* saved.                                                                  *)
(***************************************************************************)
RaceSizes == {10, 20}

\* the URI the save answered with
FileUriOf(u, kind, fileName) ==
    <<"/", "files", "/">> \o encodeURIComponent(u) \o <<"/">> \o kind \o <<"/">>
        \o encodeURIComponent(fileName)

RaceBegin(id, kind, dataUrl) ==
    /\ nextFile < MaxFiles
    /\ SaveBegin(id, kind, dataUrl)

NextRace ==
    \/ Login(alice, PasswordOf(alice))
    \/ \E id \in Slots, n \in RaceSizes : RaceBegin(id, <<"uploads">>, DataUrl(ImagePng, DataOfSize(n)))
    \/ \E id \in Slots : SaveWriteFile(id)
    \/ \E id \in Slots : SaveReadUsage(id)
    \/ \E id \in Slots : SaveWriteUsage(id)
    \/ \E n \in 0..(MaxFiles - 1) :
           DeleteImage(FileUriOf(alice, <<"uploads">>, GenName(n, <<"png">>)))

SpecRace == InitQuota /\ [][NextRace]_vars

\* C19: the bytes stored under uploads/ and generated/ of a non-admin user
\* never exceed the user's quota.
C19_QuotaCapHolds ==
    \A u \in Users : ~isAdminUser(u) => DiskBytes(fs, u) <= getQuotaBytes(u)

----------------------------------------------------------------------------
(***************************************************************************)
(* SpecSnap: alice, who has one upload, adds favorites that refer to it,   *)
(* deletes the upload or clears her galleries, and fetches what the        *)
(* favorites point at.                                                     *)
(***************************************************************************)
AliceUploadUri == FileUriOf(alice, <<"uploads">>, GenName(0, <<"png">>))

\* an id that is a relative path
ClimbingId == <<".", ".", "/", ".", ".", "/", "uploads">>

SnapItems ==
    {Obj(<<KV("id", Str(<<"s2">>)), KV("src", Str(AliceUploadUri))>>),
     Obj(<<KV("id", Str(ClimbingId)), KV("src", Str(AliceUploadUri))>>),
     Obj(<<KV("src", Str(AliceUploadUri))>>)}

DeleteUris ==
    {AliceUploadUri,
     FileUriOf(bob, <<"uploads">>, GenName(0, <<"png">>)),
     FileUriOf(alice, <<"generated">>, <<"gone", ".", "png">>),
     FilesPrefix(alice) \o <<"favorites", "/", "x">>}

\* the file references held by the favorites of the user
StoredUris(u) ==
    {Get(readJson(favFile[<<u, Chats>>])[i], "src").s : i \in 1..Len(readJson(favFile[<<u, Chats>>]))}

NextSnap ==
    \/ Login(alice, PasswordOf(alice))
    \/ \E item \in SnapItems : FavAddStep(Chats, item)
    \/ Logout
    \/ \E fileUri \in DeleteUris : DeleteImage(fileUri)
    \/ \E kindRaw \in {<<"uploads">>, All, <<"favorites">>} : ClearImages(kindRaw)
    \/ \E rawUrl \in StoredUris(alice) \cup {AliceUploadUri} : GetStep(rawUrl, FALSE)

SpecSnap == InitFav /\ [][NextSnap]_vars

\* a GET of the URI with a fresh cookie of the user is answered 200 with a
\* file that holds the bytes
ResolvesTo(uri, u, bytes) ==
    LET token == createToken(SECRET, [u |-> u, a |-> FALSE, exp |-> now + TOKEN_TTL])
        answer == HandleGet(uri, token, FALSE, now)
    IN /\ answer.status = 200
       /\ answer.file \in DOMAIN fs
       /\ fs[answer.file] = bytes

\* the reference of a stored favorite is a snapshot below the user's
\* favorites that resolves to the bytes of the upload
Survives(x) ==
    /\ Get(x, "src").t = "str"
    /\ StartsWith(Get(x, "src").s, FilesPrefix(alice) \o <<"favorites", "/">>)
    /\ ResolvesTo(Get(x, "src").s, alice, Png)

\* C20: the URI stored in a favorite for a reference to one of the user's
\* own files resolves to a file with the original bytes, also after the
\* original was deleted or the galleries were cleared.
C20_SnapshotSurvives ==
    \A i \in 1..Len(readJson(favFile[<<alice, Chats>>])) :
        Survives(readJson(favFile[<<alice, Chats>>])[i])

\* the same for the favorites whose id is a plain name
SnapshotSurvivesPlainId ==
    \A i \in 1..Len(readJson(favFile[<<alice, Chats>>])) :
        LET x == readJson(favFile[<<alice, Chats>>])[i]
        IN ~Includes(ToStr(Get(x, "id")), <<"/">>) => Survives(x)

----------------------------------------------------------------------------
(***************************************************************************)
(* The collection routes in flight.  An add or a remove reads the list,    *)
(* computes the new one and calls writeJsonAtomic, which writes a temp     *)
(* file of its own (fsp.writeFile truncates it and then fills it) and      *)
(* renames it over the target.  A temp file is kept in favFile under the   *)
(* key of its target extended by the suffix of its name.                   *)
(***************************************************************************)
Targets == Users \X Types

\* `${filePath}.tmp.${crypto.randomBytes(6).toString('hex')}`: the twelve hex
\* digits a call draws are taken to differ from those of every other call in
\* flight, so the suffix stands for the call
TmpFile_InPlace(key, suffix) == key

TmpFile(key, suffix) == <<key[1], key[2], suffix>>

\* fsp.writeFile has opened the file: it is empty, and JSON.parse rejects it
Truncated == [st |-> "corrupt", list |-> <<>>]

PutFile(key, file) == [k \in DOMAIN favFile \cup {key} |-> IF k = key THEN file ELSE favFile[k]]

\* the add handler up to the call of writeJsonAtomic
AddRead(id, type, item) ==
    LET auth == requireAuth(cookie, now)
        key == <<auth.u, type>>
        request == [op |-> "favAdd", type |-> type, item |-> item, token |-> cookie, t |-> now]
    IN /\ id \notin DOMAIN tasks
       /\ auth.ok
       /\ type \in Types
       /\ item.t = "obj"
       /\ tasks' = Spawn(id, [pc |-> "writeTmp", request |-> request, key |-> key,
                              tmp |-> TmpFile(key, id),
                              value |-> Unshift(readJson(favFile[key]), item),
                              answer |-> FavAnswer(200, item, {}, <<>>)])
       /\ UNCHANGED <<now, cookie, fs, meta, usageFile, quotaFile, favFile, nextFile, req, resp>>

\* the remove handler up to the call of writeJsonAtomic
RemoveRead(id, rawUrl) ==
    LET auth == requireAuth(cookie, now)
        parts == SegmentsOf(rawUrl)
        key == <<auth.u, parts[3]>>
        request == [op |-> "favRemove", url |-> rawUrl, token |-> cookie, t |-> now]
    IN /\ id \notin DOMAIN tasks
       /\ auth.ok
       /\ Len(parts) = 4
       /\ parts[3] \in Types
       /\ tasks' = Spawn(id, [pc |-> "writeTmp", request |-> request, key |-> key,
                              tmp |-> TmpFile(key, id),
                              value |-> SelectSeq(readJson(favFile[key]),
                                                  LAMBDA x : ~SameId(x, parts[4])),
                              answer |-> FavAnswer(200, Undefined, {}, <<>>)])
       /\ UNCHANGED <<now, cookie, fs, meta, usageFile, quotaFile, favFile, nextFile, req, resp>>

\* writeJsonAtomic: fsp.writeFile(tmp, ...) has opened the temp file
JsonWriteOpen(id) ==
    /\ id \in DOMAIN tasks
    /\ tasks[id].pc = "writeTmp"
    /\ favFile' = PutFile(tasks[id].tmp, Truncated)
    /\ tasks' = [tasks EXCEPT ![id].pc = "fillTmp"]
    /\ UNCHANGED <<now, cookie, fs, meta, usageFile, quotaFile, nextFile, req, resp>>

\* writeJsonAtomic: fsp.writeFile(tmp, ...) has written the whole text
JsonWriteDone(id) ==
    /\ id \in DOMAIN tasks
    /\ tasks[id].pc = "fillTmp"
    /\ favFile' = PutFile(tasks[id].tmp, writeJsonAtomic(tasks[id].value))
    /\ tasks' = [tasks EXCEPT ![id].pc = "rename"]
    /\ UNCHANGED <<now, cookie, fs, meta, usageFile, quotaFile, nextFile, req, resp>>

\* writeJsonAtomic: fsp.rename(tmp, filePath); then the response
JsonRename(id) ==
    LET task == tasks[id]
    IN /\ id \in DOMAIN tasks
       /\ task.pc = "rename"
       /\ favFile' = [k \in (DOMAIN favFile \ {task.tmp}) \cup {task.key} |->
                         IF k = task.key THEN favFile[task.tmp] ELSE favFile[k]]
       /\ tasks' = Retire(id)
       /\ req' = task.request
       /\ resp' = task.answer
       /\ UNCHANGED <<now, cookie, fs, meta, usageFile, quotaFile, nextFile>>

(***************************************************************************)
(* SpecAtomic: two requests of alice that add to and remove from her       *)
(* collections list are in flight at once, step by step, while the list    *)
(* is read.                                                                *)
(***************************************************************************)
AtomicItems == {Obj(<<KV("id", Str(<<"a">>))>>), Obj(<<KV("id", Num(1))>>)}

AtomicRemoveUrls == {ApiFavorites \o Collections \o <<"/">> \o <<"a">>}

InitAtomic ==
    /\ now = 1
    /\ cookie = <<>>
    /\ fs = NoFiles
    /\ meta = [u \in Users |-> MetaOf(u, u = root)]
    /\ usageFile = [u \in Users |-> [st |-> "ok", uploadsBytes |-> 0, generatedBytes |-> 0]]
    /\ quotaFile = [u \in Users |-> 0]
    /\ favFile = [k \in Targets |-> [st |-> "missing", list |-> <<>>]]
    /\ nextFile = 0
    /\ tasks = NoTasks
    /\ req = [op |-> "none"]
    /\ resp = FavAnswer(0, Undefined, {}, <<>>)

AddReadStep(id, item) ==
    /\ Len(readJson(favFile[<<alice, Collections>>])) < MaxList
    /\ AddRead(id, Collections, item)

NextAtomic ==
    \/ Login(alice, PasswordOf(alice))
    \/ \E id \in Slots, item \in AtomicItems : AddReadStep(id, item)
    \/ \E id \in Slots, rawUrl \in AtomicRemoveUrls : RemoveRead(id, rawUrl)
    \/ \E id \in Slots : JsonWriteOpen(id)
    \/ \E id \in Slots : JsonWriteDone(id)
    \/ \E id \in Slots : JsonRename(id)
    \/ FavList(ApiFavorites \o Collections)

SpecAtomic == InitAtomic /\ [][NextAtomic]_vars

\* a temp file of some write is open and not yet filled
WriteUnderWay == \E k \in DOMAIN favFile : Len(k) = 3 /\ favFile[k] = Truncated

\* C13: a collection file never holds a partially written text; whenever
\* its content changes, it changes in one step from what it held to the
\* whole list some write in flight had computed; and a list request
\* answers with the whole content the file holds at that moment, also
\* while writes are under way.
C13_AtomicWrites ==
    [][/\ \A k \in Targets :
             /\ favFile'[k].st # "corrupt"
             /\ favFile'[k] # favFile[k] =>
                    \E id \in DOMAIN tasks :
                        /\ tasks[id].pc = "rename"
                        /\ tasks[id].key = k
                        /\ favFile'[k] = [st |-> "ok", list |-> tasks[id].value]
       /\ (FavList(ApiFavorites \o Collections) /\ requireAuth(cookie, now).ok) =>
             LET file == favFile[<<requireAuth(cookie, now).u, Collections>>]
             IN /\ resp'.status = 200
                /\ resp'.item = Arr(IF file.st = "missing" THEN <<>> ELSE file.list)]_vars

\* a list request has answered with the whole non-empty list while the temp
\* file of another write was open and empty
C13_Witness ==
    /\ WriteUnderWay
    /\ req.op = "favList"
    /\ resp.status = 200
    /\ favFile[<<alice, Collections>>].st = "ok"
    /\ resp.item = Arr(favFile[<<alice, Collections>>].list)
    /\ Len(favFile[<<alice, Collections>>].list) >= 1

----------------------------------------------------------------------------
\* C21: when a logged-in user has just added an item to a list, a remove
\* by the same user of the id the add used for the favorite's directory
\* (the item's id, or the time of the add when it has none) leaves that
\* list without the stored item.
C21_AddThenRemove ==
    [][\A rawUrl \in RemoveUrls :
          LET auth == requireAuth(cookie, now)
              parts == SegmentsOf(rawUrl)
          IN (/\ req.op = "favAdd"
              /\ resp.status = 200
              /\ auth.ok
              /\ requireAuth(req.token, req.t).u = auth.u
              /\ Len(parts) = 4
              /\ parts[3] = req.type
              /\ parts[4] = FavoriteId(req.item, req.t)
              /\ FavRemove(rawUrl)) =>
                 LET after == readJson(favFile'[<<auth.u, req.type>>])
                 IN \A i \in DOMAIN after : after[i] # resp.item]_vars

----------------------------------------------------------------------------
(***************************************************************************)
(* fetchUrlBuffer event by event.  A fetch in flight is a task: the URL    *)
(* being requested, redirectsLeft, total and the bytes pushed to chunks,   *)
(* the requests issued so far, and the promise returned to the caller,     *)
(* with the number of times resolve or reject was called on it.  The       *)
(* promises of the recursive calls are chained into the first one by       *)
(* .then(resolve, reject), so one promise stands for the chain.            *)
(***************************************************************************)
SilentUrl == <<"http://", "silent">>
CutUrl == <<"http://", "cut">>
\* what a GET of the URL meets: besides the servers of Web, one that never
\* answers and one that closes the connection in the middle of the body
Net(url) ==
    CASE url = SilentUrl -> [kind |-> "silent"]
      [] url = CutUrl -> [kind |-> "cut", status |-> 200, location |-> <<>>,
                          contentType |-> ImagePng, size |-> 2, buf |-> RemoteImage]
      [] OTHER -> Web(url)

\* the lengths of the chunks a body of size bytes can arrive in
Chunkings(size) ==
    IF size = 0 THEN {<<>>}
    ELSE IF size = 1 THEN {<<1>>}
    ELSE {<<size>>, <<size - 1, 1>>, <<1, size - 1>>}

CanFollow_Always(redirectsLeft) == TRUE

\* redirectsLeft > 0
CanFollow(redirectsLeft) == redirectsLeft > 0

Pending == [state |-> "pending", statusCode |-> 0, buf |-> <<>>, contentType |-> <<>>, calls |-> 0]

\* resolve and reject: the first call settles the promise, a later one
\* is counted and changes nothing
Resolve(p, buf, contentType) ==
    IF p.state = "pending"
    THEN [state |-> "resolved", statusCode |-> 0, buf |-> buf, contentType |-> contentType, calls |-> 1]
    ELSE [p EXCEPT !.calls = @ + 1]

Reject(p, statusCode) ==
    IF p.state = "pending"
    THEN [state |-> "rejected", statusCode |-> statusCode, buf |-> <<>>, contentType |-> <<>>, calls |-> 1]
    ELSE [p EXCEPT !.calls = @ + 1]

Idle(id) == IF id \in DOMAIN tasks THEN tasks[id].promise.state # "pending" ELSE TRUE

\* fetchUrlBuffer(urlStr): lib.get(u, ...) is issued
FetchStart(id, urlStr) ==
    /\ Idle(id)
    /\ tasks' = Spawn(id, [pc |-> "request", origin |-> urlStr, url |-> urlStr,
                           redirectsLeft |-> REDIRECTS, requests |-> 1,
                           total |-> 0, pushed |-> 0, coming |-> <<>>, promise |-> Pending])
    /\ UNCHANGED <<now, cookie, fs, meta, usageFile, quotaFile, favFile, nextFile, req, resp>>

\* req.on('error', reject): the connection fails before a response
OnRequestError(id) ==
    /\ id \in DOMAIN tasks
    /\ tasks[id].pc = "request"
    /\ Net(tasks[id].url).kind = "error"
    /\ tasks' = [tasks EXCEPT ![id].pc = "closed", ![id].promise = Reject(@, 0)]
    /\ UNCHANGED <<now, cookie, fs, meta, usageFile, quotaFile, favFile, nextFile, req, resp>>

\* the callback of lib.get: the response head has arrived
OnResponse(id) ==
    LET task == tasks[id]
        r == Net(task.url)
    IN /\ id \in DOMAIN tasks
       /\ task.pc = "request"
       /\ r.kind \in {"response", "cut"}
       /\ IF r.status \in {301, 302, 303, 307, 308} /\ r.location # <<>> /\ CanFollow(task.redirectsLeft)
          THEN tasks' = [tasks EXCEPT ![id].url = r.location,
                                      ![id].redirectsLeft = @ - 1,
                                      ![id].requests = @ + 1]
          ELSE IF r.status < 200 \/ r.status >= 300
          THEN tasks' = [tasks EXCEPT ![id].pc = "closed", ![id].promise = Reject(@, r.status)]
          ELSE \E chunks \in Chunkings(r.size) :
                  tasks' = [tasks EXCEPT ![id].pc = "body", ![id].coming = chunks]
       /\ UNCHANGED <<now, cookie, fs, meta, usageFile, quotaFile, favFile, nextFile, req, resp>>

\* r.on('data', ...)
OnData(id) ==
    LET task == tasks[id]
        chunk == Head(task.coming)
    IN /\ id \in DOMAIN tasks
       /\ task.pc = "body"
       /\ task.coming # <<>>
       /\ Net(task.url).kind = "cut" => Len(task.coming) > 1
       /\ IF task.total + chunk > MAX_DOWNLOAD_BYTES
          THEN tasks' = [tasks EXCEPT ![id].total = @ + chunk,
                                      ![id].pc = "closed",
                                      ![id].promise = Reject(@, 413)]
          ELSE tasks' = [tasks EXCEPT ![id].total = @ + chunk,
                                      ![id].pushed = @ + chunk,
                                      ![id].coming = Tail(@)]
       /\ UNCHANGED <<now, cookie, fs, meta, usageFile, quotaFile, favFile, nextFile, req, resp>>

\* r.on('end', ...)
OnEnd(id) ==
    LET task == tasks[id]
        r == Net(task.url)
    IN /\ id \in DOMAIN tasks
       /\ task.pc = "body"
       /\ task.coming = <<>>
       /\ tasks' = [tasks EXCEPT ![id].pc = "closed",
                                 ![id].promise = Resolve(@, r.buf, r.contentType)]
       /\ UNCHANGED <<now, cookie, fs, meta, usageFile, quotaFile, favFile, nextFile, req, resp>>

\* the connection closes before the body is complete: the response emits
\* 'aborted' and 'close', for which the code has no listener, and no 'end'
OnAborted(id) ==
    /\ id \in DOMAIN tasks
    /\ tasks[id].pc = "body"
    /\ Net(tasks[id].url).kind = "cut"
    /\ tasks' = [tasks EXCEPT ![id].pc = "closed"]
    /\ UNCHANGED <<now, cookie, fs, meta, usageFile, quotaFile, favFile, nextFile, req, resp>>

FetchEvent(id) ==
    \/ OnRequestError(id)
    \/ OnResponse(id)
    \/ OnData(id)
    \/ OnEnd(id)
    \/ OnAborted(id)

(***************************************************************************)
(* SpecFetch: two fetches at a time, of servers that answer, fail,         *)
(* redirect (once, three times, four times, forever), send too much, never *)
(* answer, or close in the middle of the body.  Every event that the       *)
(* network has ready is eventually delivered.                              *)
(***************************************************************************)
FetchUrls ==
    {ImgUrl, PageUrl, MissingUrl, DownUrl, MovedUrl, LoopUrl, BigUrl,
     SilentUrl, CutUrl, HopUrl(3), HopUrl(4)}

InitFetch == InitAtomic

NextFetch ==
    \/ \E id \in Slots, urlStr \in FetchUrls : FetchStart(id, urlStr)
    \/ \E id \in Slots : FetchEvent(id)

SpecFetch == InitFetch /\ [][NextFetch]_vars /\ \A id \in Slots : WF_vars(FetchEvent(id))

\* every server on the way from the URL sends a whole response or fails
\* before it has sent any
Completes(urlStr) == urlStr \notin {SilentUrl, CutUrl}

Settled(id) == id \in DOMAIN tasks /\ tasks[id].promise.state # "pending"

\* what holds of a fetch at every moment
FetchBounded(task) ==
    /\ task.requests <= REDIRECTS + 1
    /\ task.pushed <= MAX_DOWNLOAD_BYTES
    /\ task.promise.calls <= 1
    /\ task.promise.calls = 1 <=> task.promise.state # "pending"
    /\ (task.origin \in {LoopUrl, HopUrl(4)} /\ task.pc = "closed") =>
          /\ task.requests = REDIRECTS + 1
          /\ task.promise.state = "rejected"
    /\ (task.origin = BigUrl /\ task.pc = "closed") =>
          /\ task.promise.state = "rejected"
          /\ task.promise.statusCode = 413
    /\ (task.promise.state # "pending") =>
          LET got == fetchUrlBuffer(task.origin, REDIRECTS)
          IN /\ got.ok <=> task.promise.state = "resolved"
             /\ got.statusCode = task.promise.statusCode
             /\ got.buf = task.promise.buf
             /\ got.contentType = task.promise.contentType

\* C22, as first stated: a fetch issues at most four requests, one that is
\* redirected forever is rejected after the fourth, a body above the cap
\* is rejected before it is buffered, resolve or reject is called at most
\* once, and in every case the promise is eventually settled.
C22_AlwaysSettles ==
    /\ [](\A id \in DOMAIN tasks : FetchBounded(tasks[id]))
    /\ \A id \in Slots : (id \in DOMAIN tasks) ~> Settled(id)

\* C22: a fetch issues at most four requests, one that is redirected
\* forever is rejected after the fourth, a body above the cap is rejected
\* before it is buffered, resolve or reject is called at most once, and
\* the promise is eventually settled whenever every server on the way
\* sends a whole response or fails before sending any.
C22_BoundedFetch ==
    /\ [](\A id \in DOMAIN tasks : FetchBounded(tasks[id]))
    /\ \A id \in Slots :
          (id \in DOMAIN tasks /\ Completes(tasks[id].origin)) ~> Settled(id)

\* the fetch of the redirect loop was rejected after four requests while
\* the fetch of the oversized body was rejected with 413
C22_Witness ==
    /\ DOMAIN tasks = Slots
    /\ tasks[1].origin = LoopUrl
    /\ tasks[1].promise.state = "rejected"
    /\ tasks[1].requests = 4
    /\ tasks[2].origin = BigUrl
    /\ tasks[2].promise.statusCode = 413
    /\ tasks[2].pushed <= MAX_DOWNLOAD_BYTES

----------------------------------------------------------------------------
(***************************************************************************)
(* SpecLost: two requests of alice in flight at once, each an add to or a  *)
(* remove from her collections list or a save into one of her galleries.   *)
(***************************************************************************)
LostSize == 10     \* bytes of each image saved

LostItems == {Obj(<<KV("id", Str(<<"a">>))>>)}

LostBegin(id, kind) ==
    /\ nextFile < MaxFiles
    /\ SaveBegin(id, kind, DataUrl(ImagePng, DataOfSize(LostSize)))

NextLost ==
    \/ Login(alice, PasswordOf(alice))
    \/ \E id \in Slots, item \in LostItems : AddReadStep(id, item)
    \/ \E id \in Slots, rawUrl \in AtomicRemoveUrls : RemoveRead(id, rawUrl)
    \/ \E id \in Slots : JsonWriteOpen(id)
    \/ \E id \in Slots : JsonWriteDone(id)
    \/ \E id \in Slots : JsonRename(id)
    \/ \E id \in Slots, kind \in Kinds : LostBegin(id, kind)
    \/ \E id \in Slots : SaveWriteFile(id)
    \/ \E id \in Slots : SaveReadUsage(id)
    \/ \E id \in Slots : SaveWriteUsage(id)

SpecLost == InitQuota /\ [][NextLost]_vars

\* the usage record addUsage computes from the record it read
Added(read, kind, bytes) ==
    [st |-> "ok",
     uploadsBytes |-> read.uploadsBytes + (IF kind = <<"uploads">> THEN bytes ELSE 0),
     generatedBytes |-> read.generatedBytes + (IF kind = <<"generated">> THEN bytes ELSE 0)]

\* C23: whatever the interleaving of two writers, a collection file or a
\* usage.json only ever changes to the whole value one writer computed from
\* what that writer had read: the list of the request that renames, the
\* record of the addUsage that writes, or the sums recomputeUsage took from
\* the disk; it never holds a mixture of two writers' values or text that
\* does not parse.
C23_LastWriterWins ==
    [][/\ \A k \in Targets :
             /\ favFile'[k].st # "corrupt"
             /\ favFile'[k] # favFile[k] =>
                    \E id \in DOMAIN tasks :
                        /\ JsonRename(id)
                        /\ tasks[id].key = k
                        /\ favFile'[k] = [st |-> "ok", list |-> tasks[id].value]
       /\ \A u \in Users :
             usageFile'[u] # usageFile[u] =>
                \/ \E id \in DOMAIN tasks :
                      /\ SaveWriteUsage(id)
                      /\ tasks[id].u = u
                      /\ usageFile'[u] = Added(tasks[id].usage, tasks[id].kind, Len(tasks[id].buf))
                \/ /\ \E id \in Slots, kind \in Kinds : LostBegin(id, kind)
                   /\ usageFile'[u] = recomputeUsage(fs, usageFile, u)[u]]_vars

\* both of two overlapping saves were stored and answered while usage.json
\* counts one of them, and an add that read the empty list is about to
\* rename its list of one item over the one item another add has put into
\* the file meanwhile
C23_Witness ==
    /\ Cardinality(DOMAIN fs) = 2
    /\ usageFile[alice].uploadsBytes + usageFile[alice].generatedBytes = LostSize
    /\ \E id \in DOMAIN tasks :
          /\ tasks[id].pc = "rename"
          /\ tasks[id].request.op = "favAdd"
          /\ Len(tasks[id].value) = 1
          /\ favFile[tasks[id].key] = [st |-> "ok", list |-> tasks[id].value]

----------------------------------------------------------------------------
(***************************************************************************)
(* SpecDispatch: alice adds favorites whose "part" is an object node of    *)
(* each shape the materializer tells apart, lists them and removes them.   *)
(***************************************************************************)
Inline(key, kv) == KV(key, Obj(kv))

DispatchNodes ==
    {Obj(<<KV("mime", Str(ImagePng)), KV("data", Str(D1)), KV("name", Str(<<"n">>)),
           KV("preview", AsString(ImagePng, D2))>>),
     Obj(<<KV("mime_type", Str(ImageJpeg)), KV("data", Str(D1))>>),
     Obj(<<KV("mime", Str(<<>>)), KV("mime_type", Str(ImagePng)), KV("data", Str(D2)),
           KV("file_uri", JNull)>>),
     Obj(<<KV("mime", Str(ImagePng)), KV("data", Str(D1)),
           Inline("inline_data", <<KV("mime_type", Str(ImagePng)), KV("data", Str(D2))>>)>>),
     Obj(<<Inline("inline_data", <<KV("mime_type", Str(ImagePng)), KV("data", Str(D1))>>),
           KV("extra", Str(<<"x">>))>>),
     Obj(<<Inline("inlineData", <<KV("mimeType", Str(ImageJpeg)), KV("data", Str(D1))>>)>>),
     Obj(<<Inline("inLineData", <<KV("data", Str(D2))>>)>>),
     Obj(<<KV("mime", Str(ImagePng)), KV("data", Str(D1)), KV("file_uri", Str(<<"/", "x">>))>>),
     Obj(<<KV("mime", Str(ImagePng)), KV("data", Str(D1)), KV("fileUri", Str(<<"/", "x">>)),
           Inline("inline_data", <<KV("data", Str(D2))>>)>>),
     Obj(<<KV("mime", Str(<<"text/", "plain">>)), KV("mime_type", Str(ImagePng)), KV("data", Str(D1))>>),
     Obj(<<KV("mime", Str(ImagePng)), KV("data", Num(5))>>),
     Obj(<<Inline("inline_data", <<KV("mime_type", Str(ImagePng))>>),
           Inline("inlineData", <<KV("data", Str(D1))>>)>>),
     Obj(<<KV("a", AsPacked(ImagePng, D1)), KV("b", Str(<<"text">>)), KV("n", Num(7))>>)}

DispatchItems == {Item("n", <<KV("part", node)>>) : node \in DispatchNodes}

NextDispatch ==
    \/ Login(alice, PasswordOf(alice))
    \/ \E item \in DispatchItems : FavAddStep(Chats, item)
    \/ FavList(ApiFavorites \o Chats)
    \/ FavRemove(ApiFavorites \o Chats \o <<"/", "n">>)

SpecDispatch == InitFav /\ [][NextDispatch]_vars

\* rule (1) applies: mime, or mime_type when mime is no non-empty string,
\* is a string starting with image/, data is a non-empty string, and
\* neither file_uri nor fileUri holds anything
MatchesPacked(node) ==
    LET mime == Get(node, "mime")
        chosen == IF mime.t = "str" /\ mime.s # <<>> THEN mime ELSE Get(node, "mime_type")
    IN /\ chosen.t = "str"
       /\ StartsWith(chosen.s, <<"image/">>)
       /\ Get(node, "data").t = "str"
       /\ Get(node, "data").s # <<>>
       /\ ~Truthy(Get(node, "file_uri"))
       /\ ~Truthy(Get(node, "fileUri"))

\* rule (2) applies: the first of inline_data, inlineData, inLineData that
\* holds anything carries data
MatchesInline(node) ==
    LET first == IF Truthy(Get(node, "inline_data")) THEN Get(node, "inline_data")
                 ELSE IF Truthy(Get(node, "inlineData")) THEN Get(node, "inlineData")
                 ELSE Get(node, "inLineData")
    IN Truthy(first) /\ Truthy(Get(first, "data"))

KeysOf(o) == [i \in DOMAIN o.kv |-> o.kv[i].k]

PlainString(v) ==
    v.t = "str" /\ ~StartsWith(v.s, <<"data:">>) /\ ~StartsWith(v.s, <<"/">>) /\ ~isHttpUrl(v.s)

\* out is what the dispatch rules make of the object node
RECURSIVE Dispatched(_, _)
Dispatched(node, out) ==
    IF MatchesPacked(node)
    THEN /\ out.t = "obj"
         /\ ~HasKey(out, "data")
         /\ Get(out, "file_uri").t = "str"
         /\ Get(out, "file_uri").s # <<>>
         /\ \A i \in DOMAIN node.kv :
               node.kv[i].k \notin {"data", "file_uri"} =>
                  HasKey(out, node.kv[i].k) /\ Get(out, node.kv[i].k) = node.kv[i].v
         /\ \A j \in DOMAIN out.kv : out.kv[j].k = "file_uri" \/ HasKey(node, out.kv[j].k)
    ELSE IF MatchesInline(node)
    THEN /\ out.t = "obj"
         /\ KeysOf(out) = <<"file_data">>
         /\ out.kv[1].v.t = "obj"
         /\ KeysOf(out.kv[1].v) = <<"mime_type", "file_uri">>
         /\ Get(out.kv[1].v, "mime_type").t = "str"
         /\ Get(out.kv[1].v, "file_uri").t = "str"
    ELSE /\ out.t = "obj"
         /\ KeysOf(out) = KeysOf(node)
         /\ \A i \in DOMAIN node.kv :
               LET child == node.kv[i].v
               IN IF child.t = "obj" THEN Dispatched(child, out.kv[i].v)
                  ELSE (child.t \in {"num", "null"} \/ PlainString(child)) => out.kv[i].v = child

----------------------------------------------------------------------------
(***************************************************************************)
(* POST /api/images/thumb {kind, originalFileUri, thumbDataUrl}.           *)
(***************************************************************************)
ThumbImage(kind, originalFileUri, thumbDataUrl) ==
    LET auth == requireAuth(cookie, now)
        prefix == FilesPrefix(auth.u) \o kind \o <<"/">>
        thumbParsed == parseDataUrl(thumbDataUrl)
        space == assertGalleryHasSpace(fs, usageFile, auth.u, kind, Len(thumbParsed.buf))
        rel == decodeURIComponent(SubSeq(originalFileUri, Len(FilesPrefix(auth.u)) + 1,
                                         Len(originalFileUri)))
        abs == PathJoin(PathJoin(USERS_ROOT, auth.u), rel)
        thumbPath == getThumbPathForImagePath(abs)
    IN /\ req' = [op |-> "thumb", kind |-> kind, url |-> originalFileUri,
                  thumbDataUrl |-> thumbDataUrl, token |-> cookie, t |-> now]
       /\ IF ~auth.ok THEN resp' = Status(401) /\ UNCHANGED <<fs, usageFile>>
          ELSE IF kind \notin Kinds THEN resp' = Status(400) /\ UNCHANGED <<fs, usageFile>>
          ELSE IF ~StartsWith(originalFileUri, prefix)
          THEN resp' = Status(400) /\ UNCHANGED <<fs, usageFile>>
          ELSE IF ~thumbParsed.ok THEN resp' = Status(400) /\ UNCHANGED <<fs, usageFile>>
          ELSE IF ~space.ok THEN resp' = Status(507) /\ usageFile' = space.usage /\ fs' = fs
          ELSE IF ~StartsWith(abs, PathJoin(USERS_ROOT, auth.u))
          THEN resp' = Status(400) /\ usageFile' = space.usage /\ fs' = fs
          ELSE /\ resp' = [status |-> 200, file |-> thumbPath]
               /\ fs' = WriteFile(fs, thumbPath, thumbParsed.buf)
               /\ usageFile' = addUsage(space.usage, auth.u, kind, Len(thumbParsed.buf))
       /\ UNCHANGED <<now, cookie, meta, quotaFile, favFile, nextFile, tasks>>

(***************************************************************************)
(* SpecDelete: alice saves images with and without thumbnails, uploads     *)
(* thumbnails for files that exist and for one that does not, adds a       *)
(* favorite whose id is a relative path into her uploads, and deletes.     *)
(***************************************************************************)
Uploads == <<"uploads">>
Generated == <<"generated">>

Ghost == <<"ghost", ".", "png">>

StoredNames == {GenName(n, <<"png">>) : n \in 0..MaxFiles}

DeleteInputs ==
    {FileUriOf(alice, Uploads, name) : name \in StoredNames \cup {Ghost}}
        \cup {FileUriOf(alice, Generated, Ghost),
              FileUriOf(bob, Uploads, GenName(0, <<"png">>)),
              FilesPrefix(alice) \o <<"favorites", "/", "x">>}

DeleteSaves ==
    {<<Uploads, DataUrl(ImagePng, DataOfSize(10)), thumbDataUrl>> : thumbDataUrl \in ThumbDataUrls}

ThumbInputs ==
    {<<Uploads, FileUriOf(alice, Uploads, Ghost), DataUrl(ImageWebp, DataOfSize(5))>>,
     <<Generated, FileUriOf(alice, Uploads, Ghost), DataUrl(ImageWebp, DataOfSize(5))>>}

\* thumbnails are uploaded while the counters leave room for two more
ThumbStep(kind, originalFileUri, thumbDataUrl) ==
    /\ Used(readUsage(usageFile, alice)) + 10 <= QuotaN
    /\ ThumbImage(kind, originalFileUri, thumbDataUrl)

ClimbingItem == Obj(<<KV("id", Str(ClimbingId)), KV("a", AsString(ImagePng, D1))>>)

NextDelete ==
    \/ Login(alice, PasswordOf(alice))
    \/ \E in \in DeleteSaves : SaveStep(in[1], in[2], in[3])
    \/ \E in \in ThumbInputs : ThumbStep(in[1], in[2], in[3])
    \/ FavAddStep(Chats, ClimbingItem)
    \/ \E fileUri \in DeleteInputs : DeleteImage(fileUri)

SpecDelete == InitQuota /\ [][NextDelete]_vars

\* the file a delete request of user u names
TargetOf(fileUri, u) ==
    PathJoin(KindDir(u, MatchFileUri(fileUri).kind), decodeURIComponent(MatchFileUri(fileUri).name))

BytesAt(files, p) == IF p \in DOMAIN files THEN Len(files[p]) ELSE 0

Counter(usage, u, kind) ==
    IF kind = Uploads THEN readUsage(usage, u).uploadsBytes ELSE readUsage(usage, u).generatedBytes

OtherKind(kind) == IF kind = Uploads THEN Generated ELSE Uploads

NonNegative(usage) ==
    \A u \in Users : readUsage(usage, u).uploadsBytes >= 0 /\ readUsage(usage, u).generatedBytes >= 0

\* C25, as first stated: a delete by a logged-in user of a well-formed URI
\* is answered 403, with nothing changed, when the URI names another user;
\* of a file of the user's that exists it removes the file and its
\* thumbnail and lowers the kind's counter by the two sizes; of a file that
\* does not exist it is answered 200 with usage.json unchanged; and no
\* counter is ever negative.
C25_DeleteAccounting ==
    [][/\ NonNegative(usageFile')
       /\ \A fileUri \in DeleteInputs :
             LET auth == requireAuth(cookie, now)
                 m == MatchFileUri(fileUri)
                 target == TargetOf(fileUri, auth.u)
                 thumb == getThumbPathForImagePath(target)
             IN (req'.op = "delete" /\ req'.url = fileUri /\ DeleteImage(fileUri) /\ auth.ok /\ m.ok) =>
                   IF decodeURIComponent(m.user) # auth.u
                   THEN resp'.status = 403 /\ fs' = fs /\ usageFile' = usageFile
                   ELSE IF target \in DOMAIN fs
                   THEN /\ resp'.status = 200
                        /\ target \notin DOMAIN fs'
                        /\ thumb \notin DOMAIN fs'
                        /\ Counter(usageFile', auth.u, m.kind)
                              = Counter(usageFile, auth.u, m.kind) - (BytesAt(fs, target) + BytesAt(fs, thumb))
                        /\ Counter(usageFile', auth.u, OtherKind(m.kind))
                              = Counter(usageFile, auth.u, OtherKind(m.kind))
                   ELSE resp'.status = 200 /\ usageFile' = usageFile]_vars

\* C25: as above, except that the counter is lowered by the two sizes but
\* not below zero, and that a delete of a file that does not exist still
\* removes the thumbnail stored for its name, if there is one, and lowers
\* the counter by its size (not below zero); without such a thumbnail
\* usage.json is unchanged.
C25_DeleteAccountingClamped ==
    [][/\ NonNegative(usageFile')
       /\ \A fileUri \in DeleteInputs :
             LET auth == requireAuth(cookie, now)
                 m == MatchFileUri(fileUri)
                 target == TargetOf(fileUri, auth.u)
                 thumb == getThumbPathForImagePath(target)
                 lowered == Max0(Max0(Counter(usageFile, auth.u, m.kind) - BytesAt(fs, target))
                                    - BytesAt(fs, thumb))
             IN (req'.op = "delete" /\ req'.url = fileUri /\ DeleteImage(fileUri) /\ auth.ok /\ m.ok) =>
                   IF decodeURIComponent(m.user) # auth.u
                   THEN resp'.status = 403 /\ fs' = fs /\ usageFile' = usageFile
                   ELSE /\ resp'.status = 200
                        /\ DOMAIN fs' = DOMAIN fs \ {target, thumb}
                        /\ \A q \in DOMAIN fs' : fs'[q] = fs[q]
                        /\ Counter(usageFile', auth.u, OtherKind(m.kind))
                              = Counter(usageFile, auth.u, OtherKind(m.kind))
                        /\ IF BytesAt(fs, target) + BytesAt(fs, thumb) = 0
                           THEN usageFile' = usageFile
                           ELSE Counter(usageFile', auth.u, m.kind) = lowered]_vars

\* the first of two uploads was deleted with its thumbnail; the counter is
\* the size of the upload that is left
C25_Witness ==
    LET first == PathJoin(KindDir(alice, Uploads), GenName(0, <<"png">>))
        second == PathJoin(KindDir(alice, Uploads), GenName(1, <<"png">>))
    IN /\ req.op = "delete"
       /\ req.url = FileUriOf(alice, Uploads, GenName(0, <<"png">>))
       /\ resp.status = 200
       /\ DOMAIN fs = {second}
       /\ usageFile[alice].uploadsBytes = Len(fs[second])
       /\ usageFile[alice].uploadsBytes > 0


----------------------------------------------------------------------------
(***************************************************************************)
(* SpecConfine: alice and bob each have one upload.  Alice adds favorites  *)
(* whose id is a plain name or a relative path and whose src is a data     *)
(* URL or a /files/alice/ string with a plain, a climbing or a             *)
(* percent-encoded remainder, and fetches what her favorites point at.     *)
(***************************************************************************)
BobBytes == <<0, 1>>
BobUpload == PathJoin(KindDir(bob, <<"uploads">>), GenName(0, <<"png">>))

\* an id that leads into the directory of another user
CrossId == <<".", ".", "/", ".", ".", "/", ".", ".", "/">> \o bob \o <<"/", "uploads">>

\* /files/alice/../bob/uploads/f0.png, and the same with %2E%2E%2F
CrossUri == FilesPrefix(alice) \o <<".", ".", "/">> \o bob \o <<"/", "uploads", "/">> \o GenName(0, <<"png">>)
EncodedUri ==
    FilesPrefix(alice) \o <<"%2E", "%2E", "%2F">> \o bob \o <<"%2F", "uploads", "%2F">> \o GenName(0, <<"png">>)

ConfineIds == {<<"s2">>, ClimbingId, CrossId}
ConfineSrcs == {AsString(ImagePng, D1), Str(AliceUploadUri), Str(CrossUri), Str(EncodedUri)}
ConfineItems == {Obj(<<KV("id", Str(id)), KV("src", src)>>) : id \in ConfineIds, src \in ConfineSrcs}

InitConfine ==
    /\ now = 1
    /\ cookie = <<>>
    /\ fs = [p \in {AliceUpload, BobUpload} |-> IF p = BobUpload THEN BobBytes ELSE Png]
    /\ meta = [u \in Users |-> MetaOf(u, u = root)]
    /\ usageFile = [u \in Users |->
                      [st |-> "ok", uploadsBytes |-> IF u \in {alice, bob} THEN 2 ELSE 0,
                       generatedBytes |-> 0]]
    /\ quotaFile = [u \in Users |-> 0]
    /\ favFile = [k \in Users \X Types |-> [st |-> "missing", list |-> <<>>]]
    /\ nextFile = 1
    /\ tasks = NoTasks
    /\ req = [op |-> "none"]
    /\ resp = FavAnswer(0, Undefined, {}, <<>>)

NextConfine ==
    \/ Login(alice, PasswordOf(alice))
    \/ Logout
    \/ \E type \in {Chats, <<"presets">>}, item \in ConfineItems : FavAddStep(type, item)
    \/ \E rawUrl \in StoredUris(alice) : GetStep(rawUrl, FALSE)

SpecConfine == InitConfine /\ [][NextConfine]_vars

\* the directory favorites/<type>/ of the user of the request
FavTypeDir(u, type) == UserRoot(u) \o <<"/", "favorites", "/">> \o type \o <<"/">>

\* C26: every file an add of user U creates, whatever the item.id, lies
\* below U's own favorites/<type>/ directory.
C26_WritesConfined ==
    req.op = "favAdd" =>
        \A p \in resp.written :
            StartsWith(p, FavTypeDir(requireAuth(req.token, req.t).u, req.type))

\* the same for the ids without a slash
C26_PlainIdsConfined ==
    (req.op = "favAdd" /\ ~Includes(FavoriteId(req.item, req.t), <<"/">>)) =>
        \A p \in resp.written :
            StartsWith(p, FavTypeDir(requireAuth(req.token, req.t).u, req.type))

\* an add of alice answered 200 has written a file into bob's uploads
C26_Reached ==
    /\ req.op = "favAdd"
    /\ resp.status = 200
    /\ requireAuth(req.token, req.t).u = alice
    /\ \E p \in resp.written : StartsWith(p, KindDir(bob, <<"uploads">>) \o <<"/">>)

\* C27: the file a snapshot copies lies inside U's own directory, whatever
\* follows /files/U/ in the string: every file written by an add whose src
\* is such a string holds the bytes of a file that was below U's directory.
C27_SourcesConfined ==
    [][(/\ req'.op = "favAdd"
        /\ resp'.status = 200
        /\ Get(req'.item, "src").t = "str"
        /\ StartsWith(Get(req'.item, "src").s, FilesPrefix(requireAuth(req'.token, req'.t).u)))
       => \A p \in resp'.written :
              \E q \in DOMAIN fs :
                  /\ StartsWith(q, UserRoot(requireAuth(req'.token, req'.t).u) \o <<"/">>)
                  /\ fs'[p] = fs[q]]_vars

\* the bytes of bob's upload are in a file below alice's favorites that a
\* GET by alice is answered with
C27_Reached ==
    /\ req.op = "GET"
    /\ resp.status = 200
    /\ requireAuth(req.token, req.t).u = alice
    /\ resp.file \in DOMAIN fs
    /\ StartsWith(resp.file, UserRoot(alice) \o <<"/", "favorites", "/">>)
    /\ fs[resp.file] = BobBytes


----------------------------------------------------------------------------
(***************************************************************************)
(* The two remaining gallery routes, and SpecUsage: alice alone uses the   *)
(* six gallery routes, one request after the other.                        *)
(***************************************************************************)
BatchImage(dataUrl, thumbDataUrl) == [dataUrl |-> dataUrl, thumbDataUrl |-> thumbDataUrl]

ThumbParsed(img) == IF img.thumbDataUrl = <<>> THEN NoMatch ELSE parseDataUrl(img.thumbDataUrl)

\* the first loop of save-batch: the bytes of what parses
RECURSIVE TotalBytes(_, _)
TotalBytes(images, i) ==
    IF i > Len(images) THEN 0
    ELSE Len(parseDataUrl(images[i].dataUrl).buf) + Len(ThumbParsed(images[i]).buf)
            + TotalBytes(images, i + 1)

\* the second loop of save-batch
RECURSIVE SaveBatchLoop(_, _, _, _, _)
SaveBatchLoop(images, i, u, kind, st) ==
    IF i > Len(images) THEN st
    ELSE LET parsed == parseDataUrl(images[i].dataUrl)
             thumbParsed == ThumbParsed(images[i])
             absPath == PathJoin(KindDir(u, kind), GenName(st.next, mimeToExt(parsed.mime)))
             thumbPath == getThumbPathForImagePath(absPath)
             files1 == WriteFile(st.files, absPath, parsed.buf)
             usage1 == addUsage(st.usage, u, kind, Len(parsed.buf))
         IN IF ~parsed.ok THEN SaveBatchLoop(images, i + 1, u, kind, st)
            ELSE IF thumbParsed.ok
            THEN SaveBatchLoop(images, i + 1, u, kind,
                               [files |-> WriteFile(files1, thumbPath, thumbParsed.buf),
                                usage |-> addUsage(usage1, u, kind, Len(thumbParsed.buf)),
                                next |-> st.next + 1])
            ELSE SaveBatchLoop(images, i + 1, u, kind,
                               [files |-> files1, usage |-> usage1, next |-> st.next + 1])

\* POST /api/images/save-batch {kind, images}
SaveBatch(kind, images) ==
    LET auth == requireAuth(cookie, now)
        space == assertGalleryHasSpace(fs, usageFile, auth.u, kind, TotalBytes(images, 1))
        st == SaveBatchLoop(images, 1, auth.u, kind,
                            [files |-> fs, usage |-> space.usage, next |-> nextFile])
    IN /\ req' = [op |-> "saveBatch", kind |-> kind, images |-> images, token |-> cookie, t |-> now]
       /\ IF ~auth.ok THEN resp' = Status(401) /\ UNCHANGED <<fs, usageFile, nextFile>>
          ELSE IF kind \notin Kinds THEN resp' = Status(400) /\ UNCHANGED <<fs, usageFile, nextFile>>
          ELSE IF ~space.ok
          THEN resp' = Status(507) /\ usageFile' = space.usage /\ UNCHANGED <<fs, nextFile>>
          ELSE /\ resp' = Status(200)
               /\ fs' = st.files
               /\ usageFile' = st.usage
               /\ nextFile' = st.next
       /\ UNCHANGED <<now, cookie, meta, quotaFile, favFile, tasks>>

\* POST /api/images/fetch {kind, url}
FetchImage(kind, urlStr) ==
    LET auth == requireAuth(cookie, now)
        got == fetchUrlBuffer(urlStr, REDIRECTS)
        mime == MimeOfContentType(got.contentType)
        space == assertGalleryHasSpace(fs, usageFile, auth.u, kind, Len(got.buf))
        absPath == PathJoin(KindDir(auth.u, kind), GenName(nextFile, mimeToExt(mime)))
    IN /\ req' = [op |-> "fetch", kind |-> kind, url |-> urlStr, token |-> cookie, t |-> now]
       /\ IF ~auth.ok THEN resp' = Status(401) /\ UNCHANGED <<fs, usageFile, nextFile>>
          ELSE IF kind # <<"generated">>
          THEN resp' = Status(400) /\ UNCHANGED <<fs, usageFile, nextFile>>
          ELSE IF ~isHttpUrl(urlStr) THEN resp' = Status(400) /\ UNCHANGED <<fs, usageFile, nextFile>>
          ELSE IF ~got.ok
          THEN /\ resp' = Status(IF got.statusCode # 0 THEN got.statusCode ELSE 500)
               /\ UNCHANGED <<fs, usageFile, nextFile>>
          ELSE IF ~StartsWith(mime, <<"image/">>)
          THEN resp' = Status(400) /\ UNCHANGED <<fs, usageFile, nextFile>>
          ELSE IF ~space.ok
          THEN resp' = Status(507) /\ usageFile' = space.usage /\ UNCHANGED <<fs, nextFile>>
          ELSE /\ resp' = [status |-> 200, file |-> absPath]
               /\ fs' = WriteFile(fs, absPath, got.buf)
               /\ usageFile' = addUsage(space.usage, auth.u, kind, Len(got.buf))
               /\ nextFile' = nextFile + 1
       /\ UNCHANGED <<now, cookie, meta, quotaFile, favFile, tasks>>

UsageSaves ==
    {<<kind, DataUrl(ImagePng, DataOfSize(10)), thumbDataUrl>> :
        kind \in Kinds, thumbDataUrl \in ThumbDataUrls}

UsageBatches ==
    {<<>>,
     <<BatchImage(DataUrl(ImagePng, DataOfSize(10)), DataUrl(ImageWebp, DataOfSize(5))),
       BatchImage(<<"junk">>, <<>>)>>}

\* a thumbnail is uploaded for a stored image, or for a name that no image
\* has (the names of stored images are random and cannot be known before)
UsageThumbStep(kind, name) ==
    /\ name = Ghost \/ PathJoin(KindDir(alice, kind), name) \in DOMAIN fs
    /\ ThumbStep(kind, FileUriOf(alice, kind, name), DataUrl(ImageWebp, DataOfSize(5)))

UsageDeletes == {FileUriOf(alice, kind, GenName(0, <<"png">>)) : kind \in Kinds}

NextUsage ==
    \/ Login(alice, PasswordOf(alice))
    \/ \E in \in UsageSaves : SaveStep(in[1], in[2], in[3])
    \/ \E images \in UsageBatches :
          nextFile + Len(images) <= MaxFiles /\ SaveBatch(<<"uploads">>, images)
    \/ \E kind \in Kinds, name \in {GenName(0, <<"png">>), Ghost} : UsageThumbStep(kind, name)
    \/ \E urlStr \in {ImgUrl, MissingUrl} :
          nextFile < MaxFiles /\ FetchImage(<<"generated">>, urlStr)
    \/ \E fileUri \in UsageDeletes : DeleteImage(fileUri)
    \/ \E kindRaw \in {<<"uploads">>, All} : ClearImages(kindRaw)

SpecUsage == InitQuota /\ [][NextUsage]_vars

\* the counter of the gallery in usage.json is the byte sum of its files
Tracks(u, kind) ==
    Counter(usageFile, u, kind) = statDirBytesRecursive(fs, KindDir(u, kind))

\* C28: after every request of a sequential series of save, save-batch,
\* thumb, fetch, delete and clear requests by one user, uploadsBytes and
\* generatedBytes equal the byte sums of the files under uploads/ and
\* generated/, thumbnails included.
C28_UsageTracksDisk == \A kind \in Kinds : Tracks(alice, kind)

\* the counters are never below the byte sums
C28_NeverBelowDisk ==
    \A kind \in Kinds :
        Counter(usageFile, alice, kind) >= statDirBytesRecursive(fs, KindDir(alice, kind))

\* a second thumbnail for the same original has been stored
C28_Reached ==
    /\ req.op = "thumb"
    /\ resp.status = 200
    /\ \E kind \in Kinds :
          Counter(usageFile, alice, kind)
              > statDirBytesRecursive(fs, KindDir(alice, kind))


----------------------------------------------------------------------------
(***************************************************************************)
(* SpecFail: alice, who has no stored image, adds favorites that succeed   *)
(* and favorites that fail: for another type, with an item that is no      *)
(* object, with a reference to a file of hers that does not exist, with a  *)
(* remote URL that cannot be fetched.  Her list is missing, unreadable or  *)
(* holds an item at the start.                                             *)
(***************************************************************************)
GoneUri == FilesPrefix(alice) \o <<"uploads", "/", "gone", ".", "png">>

\* items whose materialisation throws, the last two after a file was written
BrokenItems ==
    {Item("g", <<KV("src", Str(GoneUri))>>),
     Item("h", <<KV("a", AsString(ImagePng, D1)), KV("src", Str(GoneUri))>>)}
        \cup {Item("l", <<KV("a", AsString(ImagePng, D1)), KV("link", Str(u))>>) : u \in FailingUrls}

SoundItems == {TextPart, Item("d", <<KV("a", AsString(ImagePng, D1))>>)}

FailItems == BrokenItems \cup SoundItems \cup {Str(<<"x">>), Num(1)}

Kept == Obj(<<KV("id", Str(<<"kept">>))>>)

InitFail ==
    /\ now = 1
    /\ cookie = <<>>
    /\ fs = NoFiles
    /\ meta = [u \in Users |-> MetaOf(u, u = root)]
    /\ usageFile = [u \in Users |-> [st |-> "ok", uploadsBytes |-> 0, generatedBytes |-> 0]]
    /\ quotaFile = [u \in Users |-> 0]
    /\ \E file \in {[st |-> "missing", list |-> <<>>], [st |-> "corrupt", list |-> Garbage],
                    [st |-> "ok", list |-> <<Kept>>]} :
           favFile = [k \in Users \X Types |->
                         IF k = <<alice, Chats>> THEN file ELSE [st |-> "missing", list |-> <<>>]]
    /\ nextFile = 0
    /\ tasks = NoTasks
    /\ req = [op |-> "none"]
    /\ resp = FavAnswer(0, Undefined, {}, <<>>)

FailAddStep(type, item) ==
    /\ nextFile <= MaxFiles
    /\ \A k \in DOMAIN favFile : Len(readJson(favFile[k])) < MaxList
    /\ FavAdd(type, item)

NextFail ==
    \/ Login(alice, PasswordOf(alice))
    \/ Logout
    \/ \E type \in {Chats, <<"bogus">>}, item \in FailItems : FailAddStep(type, item)
    \/ FavList(ApiFavorites \o Chats)

SpecFail == InitFail /\ [][NextFail]_vars

\* the request is one that the handler cannot complete
MustFail(r) ==
    \/ ~requireAuth(r.token, r.t).ok
    \/ r.type \notin Types
    \/ r.item.t \notin {"obj", "arr"}
    \/ r.item \in BrokenItems

\* C29: an add that fails before its final write (invalid type or item, a
\* referenced own file that does not exist, a remote URL that cannot be
\* fetched) is answered with an error status, and an add answered with an
\* error status leaves every <type>.json exactly as it was.
C29_FailedAddLeavesList ==
    [][(req'.op = "favAdd" /\ (fs' # fs \/ resp' # resp \/ req' # req))
          => /\ MustFail(req') => resp'.status # 200
             /\ resp'.status # 200 => favFile' = favFile]_vars

\* an add that wrote a file and then failed on a missing file of the user,
\* the list holding an item
C29_Witness ==
    /\ req.op = "favAdd"
    /\ req.item \in BrokenItems
    /\ resp.status = 500
    /\ resp.written # {}
    /\ favFile[<<alice, Chats>>] = [st |-> "ok", list |-> <<Kept>>]


----------------------------------------------------------------------------
(***************************************************************************)
(* The client: a turn of a session and the stop button.  tasks holds the   *)
(* sessions of state.sessions; besides the fields the code keeps (status,  *)
(* abortController, the model messages) a session records where its turn   *)
(* stands, the attempt, the AbortControllers made and those aborted, the   *)
(* requests sent, and where the turn stood when stopSession was called.    *)
(* The server is not involved: the other variables do not change.          *)
(***************************************************************************)
MAX_429_ATTEMPTS == 3
MaxTurns == 2          \* turns started on a session

SessionIds == {"s1"}

NoController == 0      \* session.abortController = null

NewSession ==
    [status |-> "idle", abortController |-> NoController, messages |-> 0,
     pc |-> "none", attempt |-> 0, controller |-> NoController, made |-> 0, aborted |-> {},
     sent |-> 0, turns |-> 0, stoppedAt |-> "none"]

ClientStep(id, session) ==
    /\ tasks' = [tasks EXCEPT ![id] = session]
    /\ UNCHANGED <<now, cookie, fs, meta, usageFile, quotaFile, favFile, nextFile, req, resp>>

\* the end of a turn: the abort branch, the error branch and the success
\* branch all set status 'idle' and abortController null
TurnEnds(session, pushed) ==
    [session EXCEPT !.status = "idle", !.abortController = NoController,
                    !.messages = @ + pushed, !.pc = "none"]

\* the head of the loop body: a new AbortController for this attempt; the
\* turn then awaits prepareMessagesForRequest
AttemptBegins(session) ==
    [session EXCEPT !.made = @ + 1, !.controller = session.made + 1,
                    !.abortController = session.made + 1, !.pc = "prepare"]

\* executeSessionTurn is called: status 'busy', attempt 1
executeSessionTurn(id) ==
    /\ tasks[id].pc = "none"
    /\ tasks[id].turns < MaxTurns
    /\ ClientStep(id, AttemptBegins([tasks[id] EXCEPT !.status = "busy", !.attempt = 1,
                                                      !.turns = @ + 1, !.stoppedAt = "none"]))

\* fetch(url, {signal}): with an aborted signal it rejects with AbortError
\* and sends nothing
FetchCalled(id) ==
    /\ tasks[id].pc = "prepare"
    /\ IF tasks[id].controller \in tasks[id].aborted
       THEN ClientStep(id, TurnEnds(tasks[id], 0))
       ELSE ClientStep(id, [tasks[id] EXCEPT !.sent = @ + 1, !.pc = "fetch"])

\* the awaits of fetch and of the body end: AbortError if the signal was
\* aborted, else the answer of the server
FetchSettles(id, answer) ==
    /\ tasks[id].pc = "fetch"
    /\ IF tasks[id].controller \in tasks[id].aborted
       THEN ClientStep(id, TurnEnds(tasks[id], 0))
       ELSE IF answer = "content"
       THEN ClientStep(id, TurnEnds(tasks[id], 1))
       ELSE IF answer = "429" /\ tasks[id].attempt < MAX_429_ATTEMPTS
       THEN ClientStep(id, [tasks[id] EXCEPT !.pc = "sleep"])
       ELSE ClientStep(id, TurnEnds(tasks[id], 0))

\* await sleep(delayMs) ends; continue with the next attempt
Continue(id) ==
    /\ tasks[id].pc = "sleep"
    /\ ClientStep(id, AttemptBegins([tasks[id] EXCEPT !.attempt = @ + 1]))

\* stopSession(id)
stopSession(id) ==
    /\ tasks[id].abortController # NoController
    /\ ClientStep(id, [tasks[id] EXCEPT !.aborted = @ \cup {tasks[id].abortController},
                                        !.status = "cancelled",
                                        !.stoppedAt = IF @ = "none" THEN tasks[id].pc ELSE @])

InitClient ==
    /\ now = 1
    /\ cookie = <<>>
    /\ fs = NoFiles
    /\ meta = [u \in Users |-> MetaOf(u, u = root)]
    /\ usageFile = [u \in Users |-> [st |-> "ok", uploadsBytes |-> 0, generatedBytes |-> 0]]
    /\ quotaFile = [u \in Users |-> 0]
    /\ favFile = [k \in Users \X Types |-> [st |-> "missing", list |-> <<>>]]
    /\ nextFile = 0
    /\ tasks = [id \in SessionIds |-> NewSession]
    /\ req = [op |-> "none"]
    /\ resp = Status(0)

NextClient ==
    \E id \in SessionIds :
        \/ executeSessionTurn(id)
        \/ FetchCalled(id)
        \/ \E answer \in {"content", "429", "error"} : FetchSettles(id, answer)
        \/ Continue(id)
        \/ stopSession(id)

SpecClient == InitClient /\ [][NextClient]_vars

\* a turn of the session is in progress and was stopped
Stopped(id) == tasks[id].pc # "none" /\ tasks[id].stoppedAt # "none"

\* C30: after stopSession(id) during a turn (request in flight, or in the
\* backoff sleep after a 429) that turn sends no further request and
\* appends no model message, and the status stays 'cancelled' until a new
\* turn is started.
C30_StopEffective ==
    [][\A id \in SessionIds :
          Stopped(id) =>
              /\ tasks'[id].sent = tasks[id].sent
              /\ tasks'[id].messages = tasks[id].messages
              /\ tasks'[id].status = "cancelled"]_vars

\* a stop while the request is prepared or in flight: nothing more is sent
\* and no model message is appended
C30_StopInFlight ==
    [][\A id \in SessionIds :
          (Stopped(id) /\ tasks[id].stoppedAt \in {"prepare", "fetch"}) =>
              /\ tasks'[id].sent = tasks[id].sent
              /\ tasks'[id].messages = tasks[id].messages]_vars

\* a turn stopped in its backoff sleep has sent another request and has
\* appended the model's message
C30_Reached ==
    \E id \in SessionIds :
        /\ tasks[id].stoppedAt = "sleep"
        /\ tasks[id].turns = 1
        /\ tasks[id].sent = 2
        /\ tasks[id].messages = 1
        /\ tasks[id].status = "idle"

=============================================================================
